---------------------------- MODULE Spec2Model ----------------------------
(***************************************************************************)
(* Model of the MapTool terrain engine (TypeScript sources under src/).    *)
(*                                                                         *)
(* Numbers.  The program computes with IEEE floats in [0,1].  The model    *)
(* uses fixed point: a value v in [0,1] is the integer v*SCALE             *)
(* (hundredths), products and quotients are truncated toward zero.  Raw    *)
(* flow is a cell count and is kept as a plain integer, exactly as in the  *)
(* code, so that "flow <= 1" reads flow[c] <= 1.                           *)
(*                                                                         *)
(* Arrays are sequences indexed 1..width*height; cell i of the model is    *)
(* index i-1 of the program (x = (i-1) % width, y = (i-1) \div width).     *)
(***************************************************************************)
EXTENDS Integers, Sequences, FiniteSets, TLC

VARIABLES
  pc,            \* position inside the operation being modelled
  width,         \* grid width
  height,        \* grid height
  heightmap,     \* Float32Array heightmap (hundredths)
  seaLevel,      \* sea-level parameter (hundredths)
  moistureScale, \* config.moistureScale (hundredths)
  downslope,     \* buildFlowMap: downslope[] (0 stands for null)
  order,         \* buildFlowMap: cells sorted by descending elevation
  cursor,        \* buildFlowMap: position of the accumulation loop in order
  flow,          \* flow array
  water,         \* water array (hundredths)
  moisture,      \* moisture array (hundredths)
  temperature,   \* temperature array (hundredths)
  biome,         \* biome array (ids 0..9)
  sample,        \* classifier input: one cell's values
  verdict,       \* classifier output
  limit,         \* createSettlements: limit
  settlements,   \* createSettlements: returned list
  callLog,       \* generator calls made so far: arguments and returned arrays
  rng,           \* state of the random generator created by the latest call
  roadGraph,     \* generateArchipelago: roadGraph (edges of cell indices)
  generatorResult, \* the generatorResult store: the arrays of the held result
  arrays,        \* the typed arrays allocated so far, by identity
  script,        \* which worker script runs: generator.worker.ts or part_006
  requests,      \* messages posted to the worker, with the position of each handler
  posted,        \* messages the worker has posted, in order
  modulePromise, \* generator.worker.ts 21 (0 stands for null)
  moduleLoaded,  \* generator.worker.ts 22
  moduleReady,   \* part_006 23: moduleReady.get('terrain-wasm')
  loadPromise,   \* wasm/terrain.ts 18 (0 stands for null)
  promises,      \* the promises created so far, by identity
  isGenerating,  \* the isGenerating store
  delivered,     \* how many worker messages the page has handled
  generatorParameters, \* the generatorParameters store
  ENGINE_RUNTIME_CACHE \* runtime.ts: engines whose runtime has been created

vars == <<pc, width, height, heightmap, seaLevel, moistureScale, downslope,
          order, cursor, flow, water, moisture, temperature, biome, sample,
          verdict, limit, settlements, callLog, rng, roadGraph,
          generatorResult, arrays, script, requests, posted, modulePromise,
          moduleLoaded, moduleReady, loadPromise, promises, isGenerating,
          delivered, generatorParameters,
          ENGINE_RUNTIME_CACHE>>

appVars == <<script, requests, posted, modulePromise, moduleLoaded,
             moduleReady, loadPromise, promises, isGenerating, delivered,
             generatorParameters>>

gridVars == <<width, height, heightmap, seaLevel, moistureScale, downslope,
              order, cursor, flow, water, moisture, temperature, biome>>

-----------------------------------------------------------------------------
(* Bounds of the model *)

MaxWidth == 4
MaxHeight == 2
MaxCells == 4
MaxCalls == 3

(* Number of states of the model's random generators *)
RNG_MODULUS == 16

(* Fixed point unit: 1.0 *)
SCALE == 100

(* Resolution at which Math.pow(ratio, 0.4) is evaluated (twentieths) *)
POW_STEPS == 20

-----------------------------------------------------------------------------
(* Arithmetic helpers *)

Abs(v) == IF v < 0 THEN 0 - v ELSE v

Min2(a, b) == IF a < b THEN a ELSE b

Max2(a, b) == IF a > b THEN a ELSE b

(* Truncating division (JavaScript numbers are not floored; the model      *)
(* truncates toward zero so that negative quotients round like positive).  *)
Quot(a, b) == IF a >= 0 THEN a \div b ELSE 0 - ((0 - a) \div b)

(* Math.round on a value given in hundredths: nearest integer, .5 up *)
RoundHundredths(v) == (v + 50) \div SCALE

Cells == 1..(width * height)

CellX(i) == (i - 1) % width

CellY(i) == (i - 1) \div width

CellAt(x, y) == y * width + x + 1

RECURSIVE SeqMax(_, _)
SeqMax(s, acc) == IF s = <<>> THEN acc ELSE SeqMax(Tail(s), Max2(acc, Head(s)))

RECURSIVE SeqMin(_, _)
SeqMin(s, acc) == IF s = <<>> THEN acc ELSE SeqMin(Tail(s), Min2(acc, Head(s)))

-----------------------------------------------------------------------------
(* utils/terrainProcessing.ts *)

(* the eight offsets clockwise from north: N, NE, E, SE, S, SW, W, NW *)
DirectionsClockwise == << <<0, -1>>, <<1, -1>>, <<1, 0>>, <<1, 1>>,
                          <<0, 1>>, <<-1, 1>>, <<-1, 0>>, <<-1, -1>> >>

(* lines 3-12 *)
DIRECTIONS == << <<-1, -1>>, <<0, -1>>, <<1, -1>>, <<-1, 0>>,
                 <<1, 0>>, <<-1, 1>>, <<0, 1>>, <<1, 1>> >>

(* the comparison of line 42 *)
IsLowerLax(neighbor, lowest) == neighbor <= lowest

IsLower(neighbor, lowest) == neighbor < lowest

(* lines 31-46: scan of the eight directions from cell i; k is the next    *)
(* direction, lowest/lowestIndex the running minimum (0 = null)            *)
RECURSIVE ScanDirections(_, _, _, _, _)
ScanDirections(hm, i, k, lowest, lowestIndex) ==
  IF k > Len(DIRECTIONS) THEN lowestIndex
  ELSE LET nx == CellX(i) + DIRECTIONS[k][1]
           ny == CellY(i) + DIRECTIONS[k][2]
       IN IF nx < 0 \/ ny < 0 \/ nx >= width \/ ny >= height
          THEN ScanDirections(hm, i, k + 1, lowest, lowestIndex)
          ELSE IF IsLower(hm[CellAt(nx, ny)], lowest)
               THEN ScanDirections(hm, i, k + 1, hm[CellAt(nx, ny)], CellAt(nx, ny))
               ELSE ScanDirections(hm, i, k + 1, lowest, lowestIndex)

Downslope(hm) == [i \in Cells |-> ScanDirections(hm, i, 1, hm[i], 0)]

(* lines 52-55: indices sorted by descending elevation; Array.prototype.sort *)
(* is stable, so equal elevations stay in index order                        *)
RECURSIVE SortDescending(_, _)
SortDescending(hm, S) ==
  IF S = {} THEN <<>>
  ELSE LET c == CHOOSE c \in S :
                  \A d \in S : hm[c] > hm[d] \/ (hm[c] = hm[d] /\ c <= d)
       IN <<c>> \o SortDescending(hm, S \ {c})

(* lines 52-54 without the sort of line 55: the cells in index order *)
ProcessingOrderUnsorted(hm) == [k \in 1..Cardinality(Cells) |-> k]

(* lines 52-55: the order in which the accumulation loop visits the cells *)
ProcessingOrder(hm) == SortDescending(hm, Cells)

(* line 65 *)
MaxFlow(fl) == SeqMax(fl, 0)

(* line 74: the divisor of the runoff ratio *)
RunoffDivisorBare(maxFlow) == maxFlow

RunoffDivisor(maxFlow) == maxFlow + 1

(* line 74: Math.pow(f / d, 0.4) in hundredths, evaluated on a grid of     *)
(* POW_STEPS steps and rounded down: the largest k with (k/POW_STEPS)^5 <= *)
(* (f/d)^2                                                                 *)
Pow04(f, d) ==
  LET k == CHOOSE k \in 0..POW_STEPS :
             /\ k * k * k * k * k * d * d <= POW_STEPS * POW_STEPS * POW_STEPS * POW_STEPS * POW_STEPS * f * f
             /\ \A j \in (k + 1)..POW_STEPS :
                  j * j * j * j * j * d * d > POW_STEPS * POW_STEPS * POW_STEPS * POW_STEPS * POW_STEPS * f * f
  IN (k * SCALE) \div POW_STEPS

(* lines 68-78 for one cell *)
WaterOf(elevation, fl, maxFlow, sea) ==
  IF elevation <= sea THEN SCALE
  ELSE LET runoff == Pow04(fl, RunoffDivisor(maxFlow))
       IN IF runoff > 30 THEN runoff ELSE 0

(* line 93: the divisor 1 + moistureScale * 0.5, in two-hundredths *)
MoistureDivisor(scale) == 200 + scale

(* lines 89-93 for one cell, without the clamp of line 94 *)
EnhancedMoistureUnclamped(m, w, fl, maxFlow, scale) ==
  LET waterBonus == Min2(70, (w * 70) \div SCALE)
      flowBonus == Min2(80, (fl * 180) \div (maxFlow + 1))
  IN Quot((m + waterBonus + flowBonus) * 200, MoistureDivisor(scale))

(* lines 89-95 for one cell *)
EnhancedMoisture(m, w, fl, maxFlow, scale) ==
  LET waterBonus == Min2(70, (w * 70) \div SCALE)
      flowBonus == Min2(80, (fl * 180) \div (maxFlow + 1))
      value == Quot((m + waterBonus + flowBonus) * 200, MoistureDivisor(scale))
  IN Min2(SCALE, Max2(0, value))

(* lines 110-154 for one cell *)
classifyBiomes(elevation, w, temp, moist, sea) ==
  IF elevation <= sea - 2 THEN 0
  ELSE IF w > 60 THEN 1
  ELSE IF elevation > 82 THEN 9
  ELSE IF temp < 20 THEN 2
  ELSE IF temp < 35 THEN (IF moist > 40 THEN 3 ELSE 2)
  ELSE IF temp < 55 THEN (IF moist > 55 THEN 4 ELSE IF moist > 35 THEN 5 ELSE 8)
  ELSE IF temp < 75 THEN (IF moist > 65 THEN 4 ELSE IF moist > 40 THEN 5 ELSE 7)
  ELSE IF moist > 70 THEN 6
  ELSE IF moist > 45 THEN 7
  ELSE 8

(* lines 171-174 for one cell, lapseRate = 1.5 *)
TemperatureOf(y, elevation, sea) ==
  LET latitude == (y * SCALE) \div height - 50
      altitudePenalty == Min2(SCALE, (Max2(0, elevation - sea) * 15) \div 10)
      baseTemperature == Max2(0, Min2(SCALE, SCALE - (Abs(latitude) * 18) \div 10))
  IN Max2(0, Min2(SCALE, baseTemperature - altitudePenalty))

(* lines 203-217 with each value divided by the maximum *)
NormalizedHeightmapByMax(hm) ==
  LET max == SeqMax(hm, Head(hm))
      range == IF max = 0 THEN 1 ELSE max
  IN [i \in DOMAIN hm |-> (hm[i] * SCALE) \div range]

(* lines 203-217 *)
NormalizedHeightmap(hm) ==
  LET min == SeqMin(hm, Head(hm))
      max == SeqMax(hm, Head(hm))
      range == IF max - min = 0 THEN 1 ELSE max - min
  IN [i \in DOMAIN hm |-> ((hm[i] - min) * SCALE) \div range]

-----------------------------------------------------------------------------
(* Inputs of the terrain pipeline *)

RawElevations == {0, 3, 5}

SeaLevels == {30, 50, 100}

(* the scales the callers pass: the sliders give 0.2..2 (config/generators.ts *)
(* 65-72) and 0.6..2.5 (watabouInspired.ts 184-191), continental.ts 84      *)
(* gives at least 0.5                                                       *)
MoistureScales == {20, 50, 120, 250}

BaseMoistures == {0, 60}

NoSample == [kind |-> "none"]

(* the array fields of a GeneratorResult (types/generation.ts 24-29) *)
ArrayFields == {"heightmap", "flow", "moisture", "temperature", "biome", "water"}

(* generatorStore.ts 48: the store holds null; a held result names its   *)
(* arrays by their position in arrays                                    *)
NoResult == [held |-> FALSE, heightmap |-> 0, flow |-> 0, moisture |-> 0,
             temperature |-> 0, biome |-> 0, water |-> 0]

(* roadGraph: undefined *)
NoRoadGraph == [defined |-> FALSE, edges |-> <<>>]

(* no worker has been started and the parameter store is not modelled *)
appIdle ==
  /\ script = "none"
  /\ requests = <<>> /\ posted = <<>>
  /\ modulePromise = 0 /\ moduleLoaded = FALSE /\ moduleReady = FALSE
  /\ loadPromise = 0 /\ promises = <<>>
  /\ isGenerating = FALSE /\ delivered = 0
  /\ generatorParameters = <<>>

idle ==
  /\ roadGraph = NoRoadGraph
  /\ generatorResult = NoResult /\ arrays = <<>> /\ appIdle
  /\ sample = NoSample
  /\ verdict = NoSample
  /\ limit = 0
  /\ settlements = <<>>
  /\ callLog = <<>>
  /\ rng = 0
  /\ ENGINE_RUNTIME_CACHE = {}

(* State at the call of a runner (continental.ts 79-85, watabouInspired.ts *)
(* 82-88): the raw heightmap and the base moisture field are filled, the   *)
(* other arrays do not exist yet                                           *)
InitTerrain ==
  /\ pc = "normalize"
  /\ width \in 1..MaxWidth
  /\ height \in 1..MaxHeight
  /\ width * height <= MaxCells
  /\ heightmap \in [1..(width * height) -> RawElevations]
  /\ seaLevel \in SeaLevels
  /\ moistureScale \in MoistureScales
  /\ \E m \in BaseMoistures : moisture = [i \in 1..(width * height) |-> m]
  /\ downslope = <<>> /\ order = <<>> /\ cursor = 0
  /\ flow = <<>> /\ water = <<>> /\ temperature = <<>> /\ biome = <<>>
  /\ idle

otherVars == <<sample, verdict, limit, settlements, callLog, rng, roadGraph, generatorResult, arrays, appVars,
               ENGINE_RUNTIME_CACHE>>

(* continental.ts 80, watabouInspired.ts 83 *)
NormalizeStep ==
  /\ pc = "normalize"
  /\ heightmap' = NormalizedHeightmap(heightmap)
  /\ pc' = "temperature"
  /\ UNCHANGED <<width, height, seaLevel, moistureScale, downslope, order,
                 cursor, flow, water, moisture, temperature, biome, otherVars>>

(* finalizeTerrain line 187 *)
ComputeTemperatureField ==
  /\ pc = "temperature"
  /\ temperature' = [i \in Cells |-> TemperatureOf(CellY(i), heightmap[i], seaLevel)]
  /\ pc' = "downslope"
  /\ UNCHANGED <<width, height, heightmap, seaLevel, moistureScale, downslope,
                 order, cursor, flow, water, moisture, biome, otherVars>>

(* buildFlowMap lines 25-57: downslope targets, processing order, flow = 1 *)
BuildDownslope ==
  /\ pc = "downslope"
  /\ downslope' = Downslope(heightmap)
  /\ order' = ProcessingOrder(heightmap)
  /\ flow' = [i \in Cells |-> 1]
  /\ cursor' = 1
  /\ pc' = "accumulate"
  /\ UNCHANGED <<width, height, heightmap, seaLevel, moistureScale, water,
                 moisture, temperature, biome, otherVars>>

(* buildFlowMap lines 58-63: one iteration of the accumulation loop *)
AccumulateStep ==
  /\ pc = "accumulate"
  /\ cursor <= Len(order)
  /\ LET cell == order[cursor]
         target == downslope[cell]
     IN flow' = IF target # 0
                THEN [flow EXCEPT ![target] = flow[target] + flow[cell]]
                ELSE flow
  /\ cursor' = cursor + 1
  /\ UNCHANGED <<pc, width, height, heightmap, seaLevel, moistureScale,
                 downslope, order, water, moisture, temperature, biome, otherVars>>

(* buildFlowMap lines 65-80: water derivation, return *)
DeriveWater ==
  /\ pc = "accumulate"
  /\ cursor > Len(order)
  /\ water' = [i \in Cells |-> WaterOf(heightmap[i], flow[i], MaxFlow(flow), seaLevel)]
  /\ pc' = "moisture"
  /\ UNCHANGED <<width, height, heightmap, seaLevel, moistureScale, downslope,
                 order, cursor, flow, moisture, temperature, biome, otherVars>>

(* finalizeTerrain lines 189-190 *)
EnhanceMoisture ==
  /\ pc = "moisture"
  /\ moisture' = [i \in Cells |->
                    EnhancedMoisture(moisture[i], water[i], flow[i], MaxFlow(flow), moistureScale)]
  /\ pc' = "biome"
  /\ UNCHANGED <<width, height, heightmap, seaLevel, moistureScale, downslope,
                 order, cursor, flow, water, temperature, biome, otherVars>>

(* finalizeTerrain lines 191-200 *)
ClassifyBiomes ==
  /\ pc = "biome"
  /\ biome' = [i \in Cells |->
                 classifyBiomes(heightmap[i], water[i], temperature[i], moisture[i], seaLevel)]
  /\ pc' = "done"
  /\ UNCHANGED <<width, height, heightmap, seaLevel, moistureScale, downslope,
                 order, cursor, flow, water, moisture, temperature, otherVars>>

NextTerrain ==
  \/ NormalizeStep
  \/ ComputeTemperatureField
  \/ BuildDownslope
  \/ AccumulateStep
  \/ DeriveWater
  \/ EnhanceMoisture
  \/ ClassifyBiomes

SpecTerrain == InitTerrain /\ [][NextTerrain]_vars

-----------------------------------------------------------------------------
(* Claims about the terrain pipeline *)

InUnit(v) == 0 <= v /\ v <= SCALE

(* C2 (as stated): in every result of finalizeTerrain each cell of         *)
(* heightmap, flow, moisture, temperature and water lies in [0,1] and each *)
(* biome is one of the ids 0..9.                                           *)
C2_FinalizeTerrainRanges ==
  pc = "done" =>
    \A i \in Cells :
      /\ InUnit(heightmap[i]) /\ InUnit(moisture[i])
      /\ InUnit(temperature[i]) /\ InUnit(water[i])
      /\ 0 <= flow[i] /\ flow[i] <= 1
      /\ biome[i] \in 0..9

(* C4: after buildFlowMap a cell has water = 1 exactly when its elevation  *)
(* is at or below sea level; a cell above sea level has water < 1.         *)
C4_WaterOneIffSubmerged ==
  pc \in {"moisture", "biome", "done"} =>
    \A i \in Cells :
      /\ (water[i] = SCALE) <=> (heightmap[i] <= seaLevel)
      /\ heightmap[i] > seaLevel => water[i] < SCALE

(* a river cell: above sea level, with enough drainage to carry water *)
C4_Witness ==
  /\ pc = "done"
  /\ \E i \in Cells : heightmap[i] > seaLevel /\ water[i] > 0 /\ water[i] < SCALE
  /\ \E i \in Cells : heightmap[i] <= seaLevel /\ water[i] = SCALE

IsNeighbour(a, b) ==
  /\ a # b
  /\ Abs(CellX(a) - CellX(b)) <= 1
  /\ Abs(CellY(a) - CellY(b)) <= 1

(* C6: during accumulation every cell's raw flow is at least 1, and flow   *)
(* only ever grows at a cell by the flow of a neighbouring cell of         *)
(* strictly higher elevation.                                              *)
C6_FlowRunsDownhill ==
  /\ [](pc \in {"accumulate", "moisture", "biome", "done"} =>
          \A i \in Cells : flow[i] >= 1)
  /\ [][pc = "accumulate" =>
          \A i \in Cells :
            flow'[i] # flow[i] =>
              LET src == order[cursor]
              IN /\ IsNeighbour(src, i)
                 /\ heightmap[i] < heightmap[src]
                 /\ flow'[i] = flow[i] + flow[src]]_vars

(* flow has been passed on along a path of two hops *)
C6_Witness ==
  /\ pc = "done"
  /\ \E i \in Cells : flow[i] >= 3
  /\ \E i, j \in Cells : i # j /\ heightmap[i] = heightmap[j] /\ IsNeighbour(i, j)

Accumulated ==
  \/ pc = "accumulate" /\ cursor > Len(order)
  \/ pc \in {"moisture", "biome", "done"}

RECURSIVE SumFlow(_)
SumFlow(S) ==
  IF S = {} THEN 0
  ELSE LET c == CHOOSE c \in S : TRUE IN flow[c] + SumFlow(S \ {c})

(* the steepest-descent path from d passes through c within n steps *)
RECURSIVE Reaches(_, _, _)
Reaches(d, c, n) ==
  \/ d = c
  \/ n > 0 /\ downslope[d] # 0 /\ Reaches(downslope[d], c, n - 1)

(* C18: after the accumulation pass the raw flow of every cell c is 1 plus *)
(* the sum of the raw flows of the cells whose downslope target is c, that *)
(* is the number of cells whose steepest-descent path passes through c, c  *)
(* included; the raw flows of the cells without a target sum to            *)
(* width * height                                                          *)
C18_FlowCountsUpstreamCells ==
  Accumulated =>
    /\ \A c \in Cells :
         /\ flow[c] = 1 + SumFlow({d \in Cells : downslope[d] = c})
         /\ flow[c] = Cardinality({d \in Cells : Reaches(d, c, Cardinality(Cells))})
    /\ SumFlow({c \in Cells : downslope[c] = 0}) = width * height

(* a chain e -> d -> c in which the upstream cells have the larger indices, *)
(* so that index order would visit c before its contributors                *)
C18_Witness ==
  /\ Accumulated
  /\ \E c \in Cells : \E d \in Cells : \E e \in Cells :
       /\ downslope[e] = d /\ downslope[d] = c
       /\ c < d /\ d < e
       /\ flow[c] >= 3

(* the in-bounds 8-neighbours of cell i *)
NeighboursOf(i) == {j \in Cells : IsNeighbour(i, j)}

(* the neighbours of cell i with the minimum elevation among them *)
LowestNeighbours(i) ==
  {j \in NeighboursOf(i) : \A k \in NeighboursOf(i) : heightmap[j] <= heightmap[k]}

(* C19: each cell has at most one downslope target: an in-bounds           *)
(* 8-neighbour with the minimum elevation among the neighbours, taken only *)
(* if that elevation is strictly lower than the cell's own; among several  *)
(* neighbours with that minimum, the first in the order of DIRECTIONS      *)
(* (rows from top to bottom, left to right within a row, which is the      *)
(* order of the cell indices); without a strictly lower neighbour, as on   *)
(* flat terrain or a 1x1 map, the cell has no target                       *)
C19_DownslopeIsFirstLowestNeighbour ==
  pc \in {"accumulate", "moisture", "biome", "done"} =>
    \A i \in Cells :
      IF \E j \in NeighboursOf(i) : heightmap[j] < heightmap[i]
      THEN /\ downslope[i] \in LowestNeighbours(i)
           /\ \A j \in LowestNeighbours(i) : downslope[i] <= j
      ELSE downslope[i] = 0

(* a cell whose north-west and north neighbours tie for the minimum and    *)
(* are strictly lower, next to a cell without a lower neighbour            *)
C19_Witness ==
  /\ pc = "accumulate"
  /\ \E i \in Cells :
       /\ CellX(i) > 0 /\ CellY(i) > 0
       /\ {CellAt(CellX(i) - 1, CellY(i) - 1), CellAt(CellX(i), CellY(i) - 1)}
            \subseteq LowestNeighbours(i)
       /\ downslope[i] = CellAt(CellX(i) - 1, CellY(i) - 1)
       /\ heightmap[downslope[i]] < heightmap[i]
  /\ \E i \in Cells : downslope[i] = 0 /\ NeighboursOf(i) # {}

(* C20: normalizeHeightmap maps every value into [0,1] and preserves the   *)
(* order: on a non-constant array the minimum becomes exactly 0, the       *)
(* maximum exactly 1, and a <= b before gives a' <= b' after; on a         *)
(* constant array it divides by 1 and every value becomes 0                *)
C20_NormalizeKeepsOrder ==
  [][(pc = "normalize" /\ pc' = "temperature") =>
       LET constant == \A i \in Cells : heightmap[i] = heightmap[1]
       IN /\ \A i \in Cells : InUnit(heightmap'[i])
          /\ \A i \in Cells : \A j \in Cells :
               heightmap[i] <= heightmap[j] => heightmap'[i] <= heightmap'[j]
          /\ constant => \A i \in Cells : heightmap'[i] = 0
          /\ ~constant => /\ SeqMin(heightmap', SCALE) = 0
                          /\ SeqMax(heightmap', 0) = SCALE]_vars

(* a normalized array with the minimum, the maximum and a value between *)
C20_Witness ==
  /\ pc = "temperature"
  /\ \E i \in Cells : \E j \in Cells : \E k \in Cells :
       /\ heightmap[i] = 0
       /\ heightmap[j] = SCALE
       /\ heightmap[k] > 0 /\ heightmap[k] < SCALE

-----------------------------------------------------------------------------
(* The runners of continental.ts, watabouInspired.ts and the brush family: *)
(* blurHeightmap, normalizeHeightmap, finalizeTerrain                      *)

(* terrainProcessing.ts 226, in sixteenths *)
kernel == <<1, 4, 6, 4, 1>>

(* lines 230-239: the horizontal pass, samples clamped to the row *)
BlurRows(hm) ==
  [i \in Cells |->
     LET Tap(k) == hm[CellAt(Min2(width - 1, Max2(0, CellX(i) + k)), CellY(i))] * kernel[k + 3]
     IN (Tap(-2) + Tap(-1) + Tap(0) + Tap(1) + Tap(2)) \div 16]

(* lines 241-250: the vertical pass, samples clamped to the column *)
BlurColumns(hm) ==
  [i \in Cells |->
     LET Tap(k) == hm[CellAt(CellX(i), Min2(height - 1, Max2(0, CellY(i) + k)))] * kernel[k + 3]
     IN (Tap(-2) + Tap(-1) + Tap(0) + Tap(1) + Tap(2)) \div 16]

(* lines 219-253 *)
RECURSIVE blurHeightmap(_, _)
blurHeightmap(hm, passes) ==
  IF passes = 0 THEN hm
  ELSE blurHeightmap(BlurColumns(BlurRows(hm)), passes - 1)

(* raw elevations written by the noise loops, before the blur *)
UnblurredElevations == {0, 96, 160}

(* the call that follows blurHeightmap, with normalizeHeightmap left out *)
AfterBlurFinalize == "temperature"

(* continental.ts 79-80, watabouInspired.ts 82-83, part_010 42-43: the     *)
(* call that follows blurHeightmap is normalizeHeightmap                   *)
AfterBlur == "normalize"

(* State after the noise loops of a runner (continental.ts 28-77) *)
InitRunner ==
  /\ pc = "blur"
  /\ width \in 1..MaxWidth
  /\ height \in 1..MaxHeight
  /\ width * height <= MaxCells
  /\ heightmap \in [1..(width * height) -> UnblurredElevations]
  /\ seaLevel \in SeaLevels
  /\ moistureScale = 120
  /\ \E m \in BaseMoistures : moisture = [i \in 1..(width * height) |-> m]
  /\ downslope = <<>> /\ order = <<>> /\ cursor = 0
  /\ flow = <<>> /\ water = <<>> /\ temperature = <<>> /\ biome = <<>>
  /\ idle

(* continental.ts 79, watabouInspired.ts 82, part_010 42 *)
BlurStep ==
  /\ pc = "blur"
  /\ heightmap' = blurHeightmap(heightmap, 1)
  /\ pc' = AfterBlur
  /\ UNCHANGED <<width, height, seaLevel, moistureScale, downslope, order,
                 cursor, flow, water, moisture, temperature, biome, otherVars>>

NextRunner ==
  \/ BlurStep
  \/ NormalizeStep
  \/ ComputeTemperatureField
  \/ BuildDownslope
  \/ AccumulateStep
  \/ DeriveWater
  \/ EnhanceMoisture
  \/ ClassifyBiomes

SpecRunner == InitRunner /\ [][NextRunner]_vars

(* the steps of finalizeTerrain, which read the heightmap *)
ReadingSteps == {"temperature", "downslope", "accumulate", "moisture", "biome", "done"}

(* C21: in every run of a runner the blur is complete before               *)
(* normalizeHeightmap starts, the normalization is complete before         *)
(* temperature, flow accumulation, water derivation, moisture enhancement  *)
(* and biome classification read the heightmap, and the heightmap is not   *)
(* modified once they have begun                                           *)
C21_BlurNormalizeThenRead ==
  [][/\ pc = "blur" => pc' = "normalize"
     /\ pc' = "normalize" => pc = "blur"
     /\ pc' \in ReadingSteps => pc \in ReadingSteps \cup {"normalize"}
     /\ pc \in ReadingSteps => heightmap' = heightmap
     /\ pc' # "blur"]_vars

(* a finished run whose heightmap holds values the blur produced between   *)
(* the minimum and the maximum                                             *)
C21_Witness ==
  /\ pc = "done"
  /\ Len(heightmap) >= 3
  /\ \E i \in Cells : heightmap[i] = 0
  /\ \E i \in Cells : heightmap[i] = SCALE
  /\ \E i \in Cells : heightmap[i] > 0 /\ heightmap[i] < SCALE
  /\ \E i \in Cells : flow[i] > 1

-----------------------------------------------------------------------------
(* Biome classifiers *)

(* generation/noise.ts line 7 (runtime.ts 135 and common.ts 10 compute the *)
(* same value for min <= max)                                              *)
clampLowOnly(value, min, max) == Max2(min, value)

clamp(value, min, max) == Max2(min, Min2(max, value))

(* utils/noise.ts 116-127 (BIOMES) with runtime.ts 129-133 (encodeBiome):  *)
(* the id of a biome is its position in BIOMES                             *)
BIOMES == <<"ocean", "lake", "tundra", "boreal-forest", "temperate-forest",
            "temperate-grassland", "tropical-forest", "savanna", "desert",
            "alpine">>

encodeBiome(id) ==
  IF \E k \in 1..Len(BIOMES) : BIOMES[k] = id
  THEN (CHOOSE k \in 1..Len(BIOMES) : BIOMES[k] = id) - 1
  ELSE 0

(* runtime.ts 139-179 *)
computeBiomeAlpineFirst(h, moist, temp, w, sea) ==
  IF h > 82 THEN encodeBiome("alpine")
  ELSE IF w > 60 THEN encodeBiome(IF h < sea - 5 THEN "ocean" ELSE "lake")
  ELSE encodeBiome("desert")

computeBiome(h, moist, temp, w, sea) ==
  IF w > 60 THEN encodeBiome(IF h < sea - 5 THEN "ocean" ELSE "lake")
  ELSE IF h > 82 THEN encodeBiome("alpine")
  ELSE IF temp < 18 THEN encodeBiome("tundra")
  ELSE IF temp < 32 /\ moist > 50 THEN encodeBiome("boreal-forest")
  ELSE IF moist > 75
       THEN encodeBiome(IF temp > 55 THEN "tropical-forest" ELSE "temperate-forest")
  ELSE IF moist > 60 THEN encodeBiome("temperate-forest")
  ELSE IF moist > 45 THEN encodeBiome("temperate-grassland")
  ELSE IF moist > 28 THEN encodeBiome("savanna")
  ELSE encodeBiome("desert")

(* generation/biome.ts 11-22 *)
BIOME_REFERENCES ==
  << [elevation |-> 15, moisture |-> 60, temperature |-> 90, index |-> 0],
     [elevation |-> 20, moisture |-> 80, temperature |-> 80, index |-> 1],
     [elevation |-> 40, moisture |-> 35, temperature |-> 30, index |-> 2],
     [elevation |-> 50, moisture |-> 55, temperature |-> 35, index |-> 3],
     [elevation |-> 55, moisture |-> 75, temperature |-> 45, index |-> 4],
     [elevation |-> 50, moisture |-> 50, temperature |-> 60, index |-> 5],
     [elevation |-> 60, moisture |-> 90, temperature |-> 80, index |-> 6],
     [elevation |-> 55, moisture |-> 55, temperature |-> 85, index |-> 7],
     [elevation |-> 35, moisture |-> 30, temperature |-> 95, index |-> 8],
     [elevation |-> 75, moisture |-> 45, temperature |-> 30, index |-> 9] >>

(* generation/biome.ts 43-46: the score, in thousandths *)
BiomeScore(candidate, elevation, moist, temp) ==
  Abs(candidate.elevation - elevation) * 18
    + Abs(candidate.moisture - moist) * 12
    + Abs(candidate.temperature - temp) * 10

(* the same scan keeping the last of several equally near references *)
RECURSIVE NearestReferenceLast(_, _, _, _, _, _)
NearestReferenceLast(k, best, bestScore, elevation, moist, temp) ==
  IF k > Len(BIOME_REFERENCES) THEN BIOME_REFERENCES[best].index
  ELSE LET score == BiomeScore(BIOME_REFERENCES[k], elevation, moist, temp)
       IN IF bestScore = -1 \/ score <= bestScore
          THEN NearestReferenceLast(k + 1, k, score, elevation, moist, temp)
          ELSE NearestReferenceLast(k + 1, best, bestScore, elevation, moist, temp)

(* generation/biome.ts 39-53: k is the next candidate, best the index into *)
(* the table of the best one so far, bestScore = -1 stands for +Infinity   *)
RECURSIVE NearestReference(_, _, _, _, _, _)
NearestReference(k, best, bestScore, elevation, moist, temp) ==
  IF k > Len(BIOME_REFERENCES) THEN BIOME_REFERENCES[best].index
  ELSE LET score == BiomeScore(BIOME_REFERENCES[k], elevation, moist, temp)
       IN IF bestScore = -1 \/ score < bestScore
          THEN NearestReference(k + 1, k, score, elevation, moist, temp)
          ELSE NearestReference(k + 1, best, bestScore, elevation, moist, temp)

(* generation/biome.ts 24-54; paramsSeaLevel is params.seaLevel *)
pickBiome(elevation, waterDepth, moist, temp, paramsSeaLevel) ==
  IF waterDepth > 55 THEN 0
  ELSE IF waterDepth > 35 /\ elevation < clamp(paramsSeaLevel + 5, 0, SCALE) THEN 1
  ELSE NearestReference(1, 1, -1, elevation, moist, temp)

(* generation/systems.ts 21-43: the values applyCell stores for one cell *)
applyCell(elevation, w, moist, temp, fl, paramsSeaLevel) ==
  LET clampedElevation == clamp(elevation, 0, SCALE)
      clampedWater == clamp(w, 0, SCALE)
      clampedMoisture == clamp(moist, 0, SCALE)
      clampedTemperature == clamp(temp, 0, SCALE)
      clampedFlow == clamp(fl, 0, SCALE)
  IN [kind |-> "applyCell",
      heightmap |-> clampedElevation,
      water |-> clampedWater,
      moisture |-> clampedMoisture,
      temperature |-> clampedTemperature,
      flow |-> clampedFlow,
      biome |-> pickBiome(clampedElevation, clampedWater, clampedMoisture,
                          clampedTemperature, paramsSeaLevel)]

(* Sampled cell values; those outside 0..SCALE are what a generator of     *)
(* generation/systems.ts can hand to applyCell before clamping (elevation  *)
(* is multiplied by an amplitude of up to 3.5)                             *)
ElevationSamples == {-50, 0, 30, 46, 50, 82, 83, 90, 150}

WaterSamples == {-50, 0, 35, 36, 55, 56, 60, 61, 100, 150}

MoistureSamples == {-50, 0, 30, 50, 90}

TemperatureSamples == {0, 30, 50, 80, 150}

FlowSamples == {-50, 40, 150}

SeaLevelSamples == {0, 48, 50, 100}

emptyGrid ==
  /\ width = 0 /\ height = 0 /\ heightmap = <<>> /\ seaLevel = 0
  /\ moistureScale = 0 /\ downslope = <<>> /\ order = <<>> /\ cursor = 0
  /\ flow = <<>> /\ water = <<>> /\ moisture = <<>> /\ temperature = <<>>
  /\ biome = <<>>

InitBiome ==
  /\ pc = "sample"
  /\ sample \in [elevation : ElevationSamples, water : WaterSamples,
                 moisture : MoistureSamples, temperature : TemperatureSamples,
                 flow : FlowSamples, seaLevel : SeaLevelSamples]
  /\ verdict = NoSample
  /\ emptyGrid
  /\ limit = 0 /\ settlements = <<>> /\ callLog = <<>> /\ rng = 0
  /\ roadGraph = NoRoadGraph
  /\ generatorResult = NoResult /\ arrays = <<>> /\ appIdle
  /\ ENGINE_RUNTIME_CACHE = {}

(* the classifiers are called on stored cell values, which are in [0,1] *)
SampleInUnit ==
  /\ InUnit(sample.elevation) /\ InUnit(sample.water)
  /\ InUnit(sample.moisture) /\ InUnit(sample.temperature)

Classified(v) ==
  /\ verdict' = v
  /\ pc' = "classified"
  /\ UNCHANGED <<gridVars, sample, limit, settlements, callLog, rng, roadGraph, generatorResult, arrays, appVars,
               ENGINE_RUNTIME_CACHE>>

CallClassifyBiomes ==
  /\ pc = "sample" /\ SampleInUnit
  /\ Classified([kind |-> "classifyBiomes",
                 biome |-> classifyBiomes(sample.elevation, sample.water,
                             sample.temperature, sample.moisture, sample.seaLevel)])

CallComputeBiome ==
  /\ pc = "sample" /\ SampleInUnit
  /\ Classified([kind |-> "computeBiome",
                 biome |-> computeBiome(sample.elevation, sample.moisture,
                             sample.temperature, sample.water, sample.seaLevel)])

CallPickBiome ==
  /\ pc = "sample" /\ SampleInUnit
  /\ Classified([kind |-> "pickBiome",
                 biome |-> pickBiome(sample.elevation, sample.water,
                             sample.moisture, sample.temperature, sample.seaLevel)])

CallApplyCell ==
  /\ pc = "sample"
  /\ Classified(applyCell(sample.elevation, sample.water, sample.moisture,
                          sample.temperature, sample.flow, sample.seaLevel))

NextBiome ==
  \/ CallClassifyBiomes
  \/ CallComputeBiome
  \/ CallPickBiome
  \/ CallApplyCell

SpecBiome == InitBiome /\ [][NextBiome]_vars

-----------------------------------------------------------------------------
(* Claims about the classifiers *)

(* C3: every cell written through applyCell has heightmap, water,          *)
(* moisture, temperature and flow in [0,1] and a biome index 0..9, also    *)
(* when the generator hands it values outside [0,1].                       *)
C3_ApplyCellRanges ==
  verdict.kind = "applyCell" =>
    /\ InUnit(verdict.heightmap) /\ InUnit(verdict.water)
    /\ InUnit(verdict.moisture) /\ InUnit(verdict.temperature)
    /\ InUnit(verdict.flow)
    /\ verdict.biome \in 0..9
    /\ \E k \in 1..Len(BIOME_REFERENCES) : BIOME_REFERENCES[k].index = verdict.biome

(* applyCell has been given an elevation above 1 and a water value below 0 *)
C3_Witness ==
  /\ verdict.kind = "applyCell"
  /\ sample.elevation > SCALE /\ sample.water < 0 /\ sample.flow > SCALE
  /\ verdict.heightmap = SCALE /\ verdict.water = 0

(* C7: classifyBiomes and computeBiome never return desert (8) or alpine   *)
(* (9) for a cell with water > 0.6, and return alpine (9) for every cell   *)
(* with elevation > 0.82 that is not under water (water <= 0.6 and, for    *)
(* classifyBiomes, elevation above the ocean cut-off seaLevel - 0.02).     *)
C7_WaterAndAlpineRules ==
  /\ verdict.kind \in {"classifyBiomes", "computeBiome"} =>
       /\ sample.water > 60 => verdict.biome \notin {8, 9}
       /\ (sample.elevation > 82 /\ sample.water <= 60
             /\ (verdict.kind = "classifyBiomes" => sample.elevation > sample.seaLevel - 2))
            => verdict.biome = 9

(* a high, wet cell was classified as lake by computeBiome *)
C7_Witness ==
  /\ verdict.kind = "computeBiome"
  /\ sample.water > 60 /\ sample.elevation > 82
  /\ verdict.biome = 1

NotUnderWaterForPickBiome ==
  /\ sample.water <= 55
  /\ ~(sample.water > 35 /\ sample.elevation < clamp(sample.seaLevel + 5, 0, SCALE))

(* C8 (as stated): pickBiome returns alpine (9) for every cell with        *)
(* elevation > 0.82 that is not under water, whatever its moisture and     *)
(* temperature.                                                            *)
C8_PickBiomeAlpine ==
  (verdict.kind = "pickBiome" /\ sample.elevation > 82 /\ NotUnderWaterForPickBiome)
    => verdict.biome = 9

(* C9 (as stated): when water exceeds the classifier's high-water          *)
(* threshold (0.55 for pickBiome, 0.6 for computeBiome) the result is      *)
(* ocean (0) if elevation is below the sea-level parameter and lake (1)    *)
(* otherwise.                                                              *)
C9_OceanOrLakeBySeaLevel ==
  /\ (verdict.kind = "pickBiome" /\ sample.water > 55) =>
       verdict.biome = (IF sample.elevation < sample.seaLevel THEN 0 ELSE 1)
  /\ (verdict.kind = "computeBiome" /\ sample.water > 60) =>
       verdict.biome = (IF sample.elevation < sample.seaLevel THEN 0 ELSE 1)

(* the weighted distance of the sampled cell to the k-th reference, in    *)
(* thousandths: 1.8 |dE| + 1.2 |dM| + 1.0 |dT|                            *)
WeightedDistance(k) ==
  18 * Abs(BIOME_REFERENCES[k].elevation - sample.elevation)
    + 12 * Abs(BIOME_REFERENCES[k].moisture - sample.moisture)
    + 10 * Abs(BIOME_REFERENCES[k].temperature - sample.temperature)

(* C24: when neither water override applies, pickBiome returns the index   *)
(* of the reference that minimises 1.8 |dE| + 1.2 |dM| + 1.0 |dT| over the *)
(* ten entries of BIOME_REFERENCES, the earliest entry of the table among  *)
(* equally near ones, and the result is always in 0..9.                    *)
C24_PickBiomeNearestReference ==
  /\ Len(BIOME_REFERENCES) = 10
  /\ verdict.kind = "pickBiome" => verdict.biome \in 0..9
  /\ (verdict.kind = "pickBiome" /\ NotUnderWaterForPickBiome) =>
       \E k \in 1..Len(BIOME_REFERENCES) :
         /\ verdict.biome = BIOME_REFERENCES[k].index
         /\ \A j \in 1..Len(BIOME_REFERENCES) : WeightedDistance(k) <= WeightedDistance(j)
         /\ \A j \in 1..(k - 1) : WeightedDistance(k) < WeightedDistance(j)

(* pickBiome has classified a dry cell that is equally near to two         *)
(* references (temperate-grassland, 5, and savanna, 7) as the earlier one  *)
C24_Witness ==
  /\ verdict.kind = "pickBiome" /\ NotUnderWaterForPickBiome
  /\ WeightedDistance(6) = WeightedDistance(8)
  /\ \A j \in 1..Len(BIOME_REFERENCES) : WeightedDistance(6) <= WeightedDistance(j)
  /\ verdict.biome = 5

-----------------------------------------------------------------------------
(* generators/systems/common.ts: finalizeResult *)

(* the value of 0/0: a number outside every range the model computes, on  *)
(* which every comparison is false                                        *)
NaN == -9999

(* a comparison with NaN is false *)
Less(a, b) == a # NaN /\ b # NaN /\ a < b

(* common.ts 73-88 *)
normalizeArray(data) ==
  LET min == SeqMin(data, Head(data))
      max == SeqMax(data, Head(data))
      range == IF max - min = 0 THEN 1 ELSE max - min
  IN [i \in DOMAIN data |-> ((data[i] - min) * SCALE) \div range]

(* common.ts 162-178: sum of the positive drops to the in-grid neighbours  *)
(* of cell i and the number of those neighbours                            *)
SlopeNeighbours(i) ==
  {j \in Cells : j # i /\ Abs(CellX(i) - CellX(j)) <= 1 /\ Abs(CellY(i) - CellY(j)) <= 1}

RECURSIVE SumDrops(_, _, _)
SumDrops(hm, i, S) ==
  IF S = {} THEN 0
  ELSE LET j == CHOOSE j \in S : TRUE
           diff == hm[i] - hm[j]
       IN (IF diff > 0 THEN diff ELSE 0) + SumDrops(hm, i, S \ {j})

NormalizedSlope(hm, i) ==
  LET count == Cardinality(SlopeNeighbours(i))
  IN IF count = 0 THEN 0 ELSE SumDrops(hm, i, SlopeNeighbours(i)) \div count

(* common.ts 180-184 *)
RawWater(h, sea, normalizedSlope) ==
  IF h < sea
  THEN clamp(((sea - h) * 25) \div 10, 0, SCALE)
  ELSE clamp((normalizedSlope * 12) \div 10, 0, SCALE)

(* common.ts 199-205 for one cell; y / (height - 1) is 0/0 when height = 1 *)
computeTemperature(y, elevation, sea) ==
  IF height - 1 = 0 THEN NaN
  ELSE LET latitude == (y * SCALE) \div (height - 1)
           latFactor == SCALE - Abs(latitude - 50) * 2
           altitudePenalty == IF elevation > sea THEN ((elevation - sea) * 16) \div 10 ELSE 0
       IN clamp(latFactor - altitudePenalty, 0, SCALE)

(* common.ts 221-262 for one cell *)
computeBiomeIndex(h, w, t, m, sea) ==
  IF h * SCALE < sea * 92 THEN 0
  ELSE IF w > 68 THEN 1
  ELSE IF h > 82 /\ Less(t, 55) THEN 9
  ELSE IF Less(t, 22) THEN 2
  ELSE IF Less(t, 38) THEN (IF m > 55 THEN 3 ELSE 2)
  ELSE IF Less(t, 64) THEN (IF m > 65 THEN 4 ELSE IF m > 35 THEN 5 ELSE 8)
  ELSE IF m > 72 THEN 6
  ELSE IF m > 45 THEN 7
  ELSE 8

(* common.ts 212-265 on one cell's stored values *)
CallComputeBiomeIndex ==
  /\ pc = "sample" /\ SampleInUnit
  /\ Classified([kind |-> "computeBiomeIndex",
                 biome |-> computeBiomeIndex(sample.elevation, sample.water,
                             sample.temperature, sample.moisture, sample.seaLevel)])

NextBiomeIndex == CallComputeBiomeIndex

SpecBiomeIndex == InitBiome /\ [][NextBiomeIndex]_vars

(* C23: computeBiomeIndex never returns desert (8) or alpine (9) for a     *)
(* cell with water > 0.6, and returns alpine (9) for every cell with       *)
(* elevation > 0.82 that is not under water (water <= 0.6, elevation not   *)
(* below the ocean cut-off seaLevel * 0.92), whatever the temperature and  *)
(* the moisture in [0,1]                                                   *)
C23_BiomeIndexWaterAndAlpine ==
  verdict.kind = "computeBiomeIndex" =>
    /\ sample.water > 60 => verdict.biome \notin {8, 9}
    /\ (sample.elevation > 82 /\ sample.water <= 60
          /\ sample.elevation * SCALE >= sample.seaLevel * 92)
         => verdict.biome = 9

(* sea levels in the units of the raw height field *)
RawSeaLevels == {-1, 2, 4}

(* State at the call of finalizeResult: raw height and moisture fields *)
InitFinalize ==
  /\ pc = "fr-normalize"
  /\ width \in 1..MaxWidth
  /\ height \in 1..MaxHeight
  /\ width * height <= MaxCells
  /\ heightmap \in [1..(width * height) -> RawElevations]
  /\ moisture \in [1..(width * height) -> BaseMoistures]
  /\ seaLevel \in RawSeaLevels
  /\ moistureScale = 0
  /\ downslope = <<>> /\ order = <<>> /\ cursor = 0
  /\ flow = <<>> /\ water = <<>> /\ temperature = <<>> /\ biome = <<>>
  /\ idle

(* common.ts 274-300: normalized height, moisture and sea level *)
FinalizeNormalize ==
  /\ pc = "fr-normalize"
  /\ LET minHeight == SeqMin(heightmap, Head(heightmap))
         maxHeight == SeqMax(heightmap, Head(heightmap))
         heightRange == IF maxHeight - minHeight = 0 THEN 1 ELSE maxHeight - minHeight
     IN /\ heightmap' = [i \in Cells |-> ((heightmap[i] - minHeight) * SCALE) \div heightRange]
        /\ seaLevel' = clamp(Quot((seaLevel - minHeight) * SCALE, heightRange), 0, SCALE)
  /\ moisture' = normalizeArray(moisture)
  /\ pc' = "fr-flow"
  /\ UNCHANGED <<width, height, moistureScale, downslope, order, cursor, flow,
                 water, temperature, biome, otherVars>>

(* common.ts 149-189, called at line 302 *)
ComputeFlowAndWater ==
  /\ pc = "fr-flow"
  /\ flow' = normalizeArray([i \in Cells |-> NormalizedSlope(heightmap, i)])
  /\ water' = normalizeArray([i \in Cells |->
                 RawWater(heightmap[i], seaLevel, NormalizedSlope(heightmap, i))])
  /\ pc' = "fr-temperature"
  /\ UNCHANGED <<width, height, heightmap, seaLevel, moistureScale, downslope,
                 order, cursor, moisture, temperature, biome, otherVars>>

(* common.ts 191-210, called at line 303 *)
ComputeTemperature ==
  /\ pc = "fr-temperature"
  /\ temperature' = [i \in Cells |-> computeTemperature(CellY(i), heightmap[i], seaLevel)]
  /\ pc' = "fr-biome"
  /\ UNCHANGED <<width, height, heightmap, seaLevel, moistureScale, downslope,
                 order, cursor, flow, water, moisture, biome, otherVars>>

(* common.ts 212-265, called at line 304; return at 312-321 *)
ComputeBiomeIndex ==
  /\ pc = "fr-biome"
  /\ biome' = [i \in Cells |->
                 computeBiomeIndex(heightmap[i], water[i], temperature[i], moisture[i], seaLevel)]
  /\ pc' = "fr-done"
  /\ UNCHANGED <<width, height, heightmap, seaLevel, moistureScale, downslope,
                 order, cursor, flow, water, moisture, temperature, otherVars>>

NextFinalize ==
  \/ FinalizeNormalize
  \/ ComputeFlowAndWater
  \/ ComputeTemperature
  \/ ComputeBiomeIndex

SpecFinalize == InitFinalize /\ [][NextFinalize]_vars

(* C5 (as stated): in the result of finalizeResult every cell with         *)
(* water = 1 has heightmap <= the normalized sea level of that call, also  *)
(* for a height field that lies entirely above sea level.                  *)
C5_FinalizeResultWaterBelowSea ==
  pc = "fr-done" =>
    \A i \in Cells : water[i] = SCALE => heightmap[i] <= seaLevel

(* C15: when width = 1 or height = 1 the result of finalizeResult, which   *)
(* runVoronoiGenerator, runTectonicGenerator and runFractalBasinsGenerator *)
(* return, has temperature, heightmap, moisture, flow and water defined    *)
(* and in [0,1] at every cell: no coordinate was divided by zero           *)
C15_DegenerateGridDefined ==
  (pc = "fr-done" /\ (width = 1 \/ height = 1)) =>
    \A i \in Cells :
      /\ InUnit(temperature[i])
      /\ InUnit(heightmap[i])
      /\ InUnit(moisture[i])
      /\ InUnit(flow[i])
      /\ InUnit(water[i])

-----------------------------------------------------------------------------
(* workers/custom-generators.ts: createSettlements *)

(* the limit generateArchipelago passes (line 138) *)
SETTLEMENT_LIMIT == 4

(* custom-generators.ts 6-10; index is the program's 0-based index *)
indexToCoordByHeight(index, w) == [x |-> index % w, y |-> index \div height]

indexToCoord(index, w) == [x |-> index % w, y |-> index \div w]

(* custom-generators.ts 394-396 *)
lerp(a, b, t) == a + ((b - a) * t) \div SCALE

(* custom-generators.ts 26-31: the cells pushed to candidates *)
SettlementCandidates(hm, sea) == {i \in DOMAIN hm : hm[i] > sea + 5}

(* custom-generators.ts 32 with the comparator a.height - b.height *)
SortedCandidatesAscending(hm, sea) ==
  LET sorted == SortDescending(hm, SettlementCandidates(hm, sea))
  IN [k \in 1..Len(sorted) |-> sorted[Len(sorted) + 1 - k]]

(* custom-generators.ts 32: candidates.sort((a, b) => b.height - a.height), *)
(* a stable sort of a list built in index order                             *)
SortedCandidates(hm, sea) == SortDescending(hm, SettlementCandidates(hm, sea))

(* custom-generators.ts 34-37 *)
createSettlements(hm, w, h, lim, sea) ==
  LET sorted == SortedCandidates(hm, sea)
      taken == SubSeq(sorted, 1, Min2(lim, Len(sorted)))
  IN [k \in 1..Len(taken) |->
        LET coord == indexToCoord(taken[k] - 1, w)
        IN [id |-> k, x |-> coord.x, y |-> coord.y,
            size |-> RoundHundredths(lerp(4 * SCALE, 10 * SCALE, clamp(hm[taken[k]], 0, SCALE)))]]

FinalElevations == {0, 55, 56, 70, 100}

ArchipelagoSeaLevels == {25, 50, 65}

(* State at line 138 of generateArchipelago: the finalized heightmap *)
InitSettle ==
  /\ pc = "settle"
  /\ width \in 1..MaxWidth
  /\ height \in 1..MaxHeight
  /\ width * height <= MaxCells
  /\ heightmap \in [1..(width * height) -> FinalElevations]
  /\ seaLevel \in ArchipelagoSeaLevels
  /\ limit \in 1..SETTLEMENT_LIMIT
  /\ settlements = <<>>
  /\ moistureScale = 0 /\ moisture = <<>>
  /\ downslope = <<>> /\ order = <<>> /\ cursor = 0
  /\ flow = <<>> /\ water = <<>> /\ temperature = <<>> /\ biome = <<>>
  /\ sample = NoSample /\ verdict = NoSample
  /\ callLog = <<>> /\ rng = 0 /\ ENGINE_RUNTIME_CACHE = {}
  /\ roadGraph = NoRoadGraph
  /\ generatorResult = NoResult /\ arrays = <<>> /\ appIdle

CreateSettlements ==
  /\ pc = "settle"
  /\ settlements' = createSettlements(heightmap, width, height, limit, seaLevel)
  /\ pc' = "settled"
  /\ UNCHANGED <<gridVars, sample, verdict, limit, callLog, rng, roadGraph, generatorResult, arrays, appVars,
               ENGINE_RUNTIME_CACHE>>

(* custom-generators.ts 141 with array.slice(idx) *)
RoadTargetsFromOrigin(array, idx) == SubSeq(array, idx, Len(array))

(* custom-generators.ts 141: array.slice(idx + 1); idx is the 1-based      *)
(* position of the origin                                                  *)
RoadTargets(array, idx) == SubSeq(array, idx + 1, Len(array))

(* custom-generators.ts 140-142: the flatMap over the origins idx..        *)
RECURSIVE RoadsFrom(_, _, _)
RoadsFrom(array, idx, w) ==
  IF idx > Len(array) THEN <<>>
  ELSE LET origin == array[idx]
           targets == RoadTargets(array, idx)
       IN [t \in 1..Len(targets) |->
             <<origin.y * w + origin.x, targets[t].y * w + targets[t].x>>]
          \o RoadsFrom(array, idx + 1, w)

(* custom-generators.ts 139-143 *)
RoadGraphOf(st, w) ==
  IF Len(st) >= 2
  THEN [defined |-> TRUE,
        edges |-> RoadsFrom(SubSeq(st, 1, Min2(SETTLEMENT_LIMIT, Len(st))), 1, w)]
  ELSE NoRoadGraph

BuildRoadGraph ==
  /\ pc = "settled"
  /\ roadGraph' = RoadGraphOf(settlements, width)
  /\ pc' = "roads"
  /\ UNCHANGED <<gridVars, sample, verdict, limit, settlements, callLog, rng,
                 generatorResult, arrays, appVars, ENGINE_RUNTIME_CACHE>>

NextSettle ==
  \/ CreateSettlements
  \/ BuildRoadGraph

SpecSettle == InitSettle /\ [][NextSettle]_vars

(* C10: createSettlements returns at most limit settlements, each at an    *)
(* in-grid cell whose elevation is greater than seaLevel + 0.05 (hence     *)
(* strictly above seaLevel); when no cell exceeds that margin it returns   *)
(* none.                                                                   *)
C10_SettlementsAboveSea ==
  pc = "settled" =>
    /\ Len(settlements) <= limit
    /\ \A k \in 1..Len(settlements) :
         LET st == settlements[k]
         IN /\ 0 <= st.x /\ st.x < width
            /\ 0 <= st.y /\ st.y < height
            /\ heightmap[CellAt(st.x, st.y)] > seaLevel + 5
            /\ heightmap[CellAt(st.x, st.y)] > seaLevel
    /\ (\A i \in Cells : ~(heightmap[i] > seaLevel + 5)) => settlements = <<>>

(* more cells qualify than the limit allows, one cell sits exactly on the  *)
(* margin, and a settlement lies in the second row                         *)
C10_Witness ==
  /\ pc = "settled"
  /\ Len(settlements) = limit
  /\ Cardinality(SettlementCandidates(heightmap, seaLevel)) > limit
  /\ \E i \in Cells : heightmap[i] = seaLevel + 5
  /\ \E k \in 1..Len(settlements) : settlements[k].y > 0

(* the graph node of settlement k: settlement.y * width + settlement.x *)
SettlementNode(k) == settlements[k].y * width + settlements[k].x

(* C12: with n >= 2 settlements the roadGraph has exactly n*(n-1)/2 edges, *)
(* one for each unordered pair of distinct settlements, every endpoint is  *)
(* the node of a returned settlement and no edge is a self-loop; with      *)
(* fewer than 2 settlements the roadGraph is absent.                       *)
C12_RoadGraphComplete ==
  pc = "roads" =>
    LET n == Len(settlements)
        edges == roadGraph.edges
    IN IF n >= 2
       THEN /\ roadGraph.defined
            /\ 2 * Len(edges) = n * (n - 1)
            /\ \A i, j \in 1..n : i < j =>
                 Cardinality({k \in 1..Len(edges) :
                    {edges[k][1], edges[k][2]} = {SettlementNode(i), SettlementNode(j)}}) = 1
            /\ \A k \in 1..Len(edges) :
                 /\ edges[k][1] # edges[k][2]
                 /\ \E i \in 1..n : edges[k][1] = SettlementNode(i)
                 /\ \E i \in 1..n : edges[k][2] = SettlementNode(i)
       ELSE ~roadGraph.defined

(* four settlements joined by six roads *)
C12_Witness ==
  /\ pc = "roads"
  /\ Len(settlements) = 4
  /\ roadGraph.defined
  /\ Len(roadGraph.edges) = 6

(* the cell of settlement k *)
SettlementCell(k) == CellAt(settlements[k].x, settlements[k].y)

(* cell a comes before cell b in the order of the result: higher, or       *)
(* equally high and earlier in scan order                                  *)
RanksBefore(a, b) ==
  heightmap[a] > heightmap[b] \/ (heightmap[a] = heightmap[b] /\ a < b)

(* C11: the settlements are the limit highest qualifying cells in          *)
(* descending elevation order, equal elevations by ascending cell index,   *)
(* and their ids are 1, 2, ..., n in that order.                           *)
C11_SettlementsRankedAndNumbered ==
  pc = "settled" =>
    LET n == Len(settlements)
        candidates == SettlementCandidates(heightmap, seaLevel)
        chosen == {SettlementCell(k) : k \in 1..n}
    IN /\ n = Min2(limit, Cardinality(candidates))
       /\ \A k \in 1..n : settlements[k].id = k
       /\ chosen \subseteq candidates
       /\ \A k \in 1..(n - 1) : RanksBefore(SettlementCell(k), SettlementCell(k + 1))
       /\ \A c \in candidates \ chosen : \A k \in 1..n : RanksBefore(SettlementCell(k), c)

(* two returned settlements are equally high, and a qualifying cell as     *)
(* high as the last settlement was left out                                *)
C11_Witness ==
  /\ pc = "settled"
  /\ Len(settlements) >= 2
  /\ \E k \in 1..(Len(settlements) - 1) :
       heightmap[SettlementCell(k)] = heightmap[SettlementCell(k + 1)]
  /\ \E c \in SettlementCandidates(heightmap, seaLevel) :
       /\ \A k \in 1..Len(settlements) : SettlementCell(k) # c
       /\ heightmap[c] = heightmap[SettlementCell(Len(settlements))]

-----------------------------------------------------------------------------
(* Generators: random sources and elementary functions                     *)
(*                                                                         *)
(* seedrandom (ARC4) and runtime.ts createRng (mulberry32) are modelled as *)
(* small congruential generators: what the model keeps is that a state is  *)
(* derived from the seed when the generator object is created and that     *)
(* every draw advances it.  Math.sin and Math.cos are modelled by the      *)
(* triangle wave of the same period, angles being hundredths of a turn.    *)

(* seedrandom(String(seed >>> 0)): the generator continues the latest one  *)
seedrandomShared(seed) == IF callLog = <<>> THEN (seed * 7 + 3) % RNG_MODULUS ELSE rng

(* seedrandom(String(seed >>> 0)): state of a new generator; the model's   *)
(* seeds are in 0..2^31-1, where seed >>> 0 = seed                         *)
seedrandom(seed) == (seed * 7 + 3) % RNG_MODULUS

(* one call of rng.quick(): the next state *)
RngNext(state) == (state * 5 + 1) % RNG_MODULUS

RECURSIVE RngAdvance(_, _)
RngAdvance(state, n) ==
  IF n > 0 /\ state \in 0..(RNG_MODULUS - 1) THEN RngAdvance(RngNext(state), n - 1) ELSE state

(* the value in [0,1) returned by the n-th draw after state *)
Quick(state, n) == (RngAdvance(state, n) * SCALE) \div RNG_MODULUS

SinTurn(t) ==
  LET p == ((t % SCALE) + SCALE) % SCALE
  IN IF p < 25 THEN 4 * p
     ELSE IF p < 75 THEN 200 - 4 * p
     ELSE 4 * p - 400

CosTurn(t) == SinTurn(t + 25)

(* Math.sqrt of a value in ten-thousandths, result in hundredths, by       *)
(* bisection on lo..hi                                                     *)
RECURSIVE ISqrt(_, _, _)
ISqrt(n, lo, hi) ==
  IF lo >= hi THEN lo
  ELSE LET mid == (lo + hi + 1) \div 2
       IN IF mid * mid <= n THEN ISqrt(n, mid, hi) ELSE ISqrt(n, lo, mid - 1)

Sqrt(n) == ISqrt(n, 0, 400)

(* custom-generators.ts 377-388 (generator-utils BIOME_MAP) *)
BIOME_MAP ==
  << [elevation |-> 20, moisture |-> 50, temperature |-> 100, index |-> 0],
     [elevation |-> 25, moisture |-> 100, temperature |-> 100, index |-> 1],
     [elevation |-> 40, moisture |-> 40, temperature |-> 25, index |-> 2],
     [elevation |-> 60, moisture |-> 70, temperature |-> 35, index |-> 3],
     [elevation |-> 60, moisture |-> 85, temperature |-> 50, index |-> 4],
     [elevation |-> 65, moisture |-> 60, temperature |-> 70, index |-> 5],
     [elevation |-> 70, moisture |-> 95, temperature |-> 85, index |-> 6],
     [elevation |-> 75, moisture |-> 60, temperature |-> 90, index |-> 7],
     [elevation |-> 75, moisture |-> 30, temperature |-> 100, index |-> 8],
     [elevation |-> 95, moisture |-> 50, temperature |-> 40, index |-> 9] >>

(* custom-generators.ts 408-420 *)
RECURSIVE NearestInMap(_, _, _, _, _, _)
NearestInMap(k, best, bestScore, elevation, moist, temp) ==
  IF k > Len(BIOME_MAP) THEN BIOME_MAP[best].index
  ELSE LET score == Abs(BIOME_MAP[k].elevation - elevation) * 2
                      + Abs(BIOME_MAP[k].moisture - moist)
                      + Abs(BIOME_MAP[k].temperature - temp)
       IN IF bestScore = -1 \/ score < bestScore
          THEN NearestInMap(k + 1, k, score, elevation, moist, temp)
          ELSE NearestInMap(k + 1, best, bestScore, elevation, moist, temp)

(* custom-generators.ts 398-421 (generator-utils pickBiome) *)
pickBiomeByElevation(elevation, moist, temp) ==
  IF elevation < 18 THEN 0
  ELSE IF elevation < 24 THEN 1
  ELSE NearestInMap(1, 1, -1, elevation, moist, temp)

(* custom-generators.ts 12-17, in hundredths *)
normalCoord(value, max) == IF max <= 1 THEN 0 ELSE (value * SCALE) \div (max - 1)

-----------------------------------------------------------------------------
(* wasm/terrain-fallback.ts: createGenerator and fallbackModule.generate_map *)

(* lines 20-48: the cell at (x, y), given the value jitter of rng.quick();  *)
(* p holds the arguments of generate_map                                    *)
FallbackCell(x, y, quick, p) ==
  LET nx == (x * SCALE) \div Max2(1, p.width - 1)
      ny == (y * SCALE) \div Max2(1, p.height - 1)
      base == SinTurn(nx + ny + (p.seed * 16) \div 10000)
      ridge == CosTurn(Quot((nx - ny) * 75, SCALE) + (p.warpStrength * 398) \div SCALE)
      jitter == quick * 2 - SCALE
      erosionFactor == clamp(SCALE - (p.erosionIterations * 15) \div SCALE, 50, SCALE)
      rawElevation == Quot((Quot(base * 60 + ridge * 40 + jitter * 15 * p.warpStrength, SCALE))
                             * erosionFactor, SCALE)
      normalizedElevation ==
        (clamp(Quot(rawElevation + SCALE, 2), 0, SCALE) * clamp(p.elevationAmplitude, 10, 500)) \div SCALE
      latitude == Abs(50 - ny) * 2
      cellTemperature == clamp(SCALE - latitude - (normalizedElevation * 60) \div SCALE
                      + (p.seaLevel * 20) \div SCALE, 0, SCALE)
      cellMoisture == clamp(Quot(((((CosTurn(nx + (p.seed * 48) \div 10000) + SCALE) \div 2)
                       * clamp(p.moistureScale, 10, 400)) \div SCALE)
                       * (SCALE - (normalizedElevation * 30) \div SCALE), SCALE), 0, SCALE)
      depth == clamp(p.seaLevel - normalizedElevation, 0, SCALE)
  IN [elevation |-> normalizedElevation, water |-> depth, moisture |-> cellMoisture,
      temperature |-> cellTemperature,
      biome |-> pickBiomeByElevation(normalizedElevation, cellMoisture, cellTemperature)]

(* lines 52-108: the arrays generate_map returns; the generator of line 81 *)
(* is created from the seed and draws once per cell in scan order          *)
generate_map(p) ==
  LET generator == seedrandom(p.seed)
      size == p.width * p.height
      cell(i) == FallbackCell((i - 1) % p.width, (i - 1) \div p.width, Quick(generator, i), p)
  IN [heightmap |-> [i \in 1..size |-> cell(i).elevation],
      water |-> [i \in 1..size |-> cell(i).water],
      moisture |-> [i \in 1..size |-> cell(i).moisture],
      temperature |-> [i \in 1..size |-> cell(i).temperature],
      biome |-> [i \in 1..size |-> cell(i).biome],
      flow |-> [i \in 1..size |-> Max2(0, cell(i).water - 5)],
      rngAfter |-> RngAdvance(generator, size)]

-----------------------------------------------------------------------------
(* workers/custom-generators.ts: generateArchipelago *)

(* lines 461-479 (generator-utils normalizeArray with min = 0, max = 1) *)
normalizeBuffer(buffer) ==
  LET smallest == SeqMin(buffer, Head(buffer))
      largest == SeqMax(buffer, Head(buffer))
      range == largest - smallest
  IN IF range <= 0 THEN buffer
     ELSE [i \in DOMAIN buffer |-> ((buffer[i] - smallest) * SCALE) \div range]

(* lines 422-459 (generator-utils computeSlopeFlow) for cell i of a w x h grid *)
SlopeFlowAt(hm, w, h, i) ==
  LET x == (i - 1) % w
      y == (i - 1) \div w
      drops == {hm[i] - hm[j] : j \in {j \in DOMAIN hm :
                   /\ j # i
                   /\ Abs(((j - 1) % w) - x) <= 1
                   /\ Abs(((j - 1) \div w) - y) <= 1}}
      positive == {d \in drops : d > 0}
  IN IF positive = {} THEN 0 ELSE CHOOSE d \in positive : \A e \in positive : e <= d

(* lines 66-71: peak k, drawn after the two draws for the primary centre *)
ArchipelagoPeak(state, k, islandDensity) ==
  LET first == 2 + 4 * (k - 1)
  IN [x |-> clamp(Quick(state, first + 1), 5, 95),
      y |-> clamp(Quick(state, first + 2), 10, 90),
      radius |-> 12 + (Quick(state, first + 3) * ((25 * SCALE) \div islandDensity)) \div SCALE,
      amplitude |-> 45 + (Quick(state, first + 4) * 60) \div SCALE]

(* lines 85-93: the exponent 1.4 + volcanicActivity * 0.45 (1.895 at the   *)
(* default setting) is taken as 2                                          *)
RECURSIVE IslandContribution(_, _, _, _, _)
IslandContribution(state, k, islandDensity, nx, ny) ==
  IF k = 0 THEN 0
  ELSE LET peak == ArchipelagoPeak(state, k, islandDensity)
           pdx == nx - peak.x
           pdy == ny - peak.y
           distance == Sqrt(pdx * pdx + pdy * pdy)
           influence == Max2(0, SCALE - (distance * SCALE) \div peak.radius)
           intensity == (((influence * influence) \div SCALE) * peak.amplitude) \div SCALE
       IN intensity + IslandContribution(state, k - 1, islandDensity, nx, ny)

(* lines 40-157; settings other than islandDensity are at their defaults   *)
(* (shorelineRoughness 0.45, tradeWinds 0.7)                               *)
generateArchipelago(p) ==
  LET generator == seedrandom(p.seed)
      size == p.width * p.height
      islandDensity == clamp(p.islandDensity, 30, 160)
      shorelineRoughness == 45
      tradeWinds == 70
      primaryCenterX == 50 + Quot((Quick(generator, 1) - 50) * 18, SCALE)
      primaryCenterY == 47 + Quot((Quick(generator, 2) - 50) * 16, SCALE)
      radialFalloff == 110 + Quot((120 - islandDensity) * 50, SCALE)
      archipelagoSea == clamp(42 + Quot((120 - islandDensity) * 12, SCALE), 25, 65)
      islandCount == Max2(2, RoundHundredths(4 * SCALE + islandDensity * 6))
      nxOf(i) == normalCoord((i - 1) % p.width, p.width)
      nyOf(i) == normalCoord((i - 1) \div p.width, p.height)
      rawCell(i) ==
        LET dx == nxOf(i) - primaryCenterX
            dy == nyOf(i) - primaryCenterY
            radial == SCALE - (Sqrt(dx * dx + dy * dy) * radialFalloff) \div SCALE
            islands == IslandContribution(generator, islandCount, islandDensity, nxOf(i), nyOf(i))
            turbulence == Quot((Quick(generator, 2 + 4 * islandCount + i) * 2 - SCALE)
                                 * shorelineRoughness * 25, SCALE * SCALE)
            swell == Quot((SinTurn(3 * (nxOf(i) + (p.seed * 12) \div SCALE))
                            + CosTurn(2 * (nyOf(i) - (p.seed * 9) \div SCALE)))
                            * shorelineRoughness * 8, SCALE * SCALE)
        IN Quot(radial * 55, SCALE) + islands \div islandCount + turbulence + swell
      rawHeight == normalizeBuffer([i \in 1..size |-> rawCell(i)])
      elevations == [i \in 1..size |-> clamp(rawHeight[i], 0, SCALE)]
      depths == [i \in 1..size |-> clamp(archipelagoSea - elevations[i], 0, SCALE)]
      moistureAt(i) ==
        LET coastal == clamp(SCALE - (depths[i] * 32) \div 10, 0, SCALE)
            equator == clamp(SCALE - (Abs(nyOf(i) - 50) * 16) \div 10, 0, SCALE)
            windBias == clamp(50 - (nxOf(i) - 50), 0 - SCALE, SCALE)
        IN clamp((equator * 45) \div SCALE + (coastal * 55) \div SCALE
                   + Quot(tradeWinds * windBias * 20, SCALE * SCALE), 0, SCALE)
      temperatureAt(i) == clamp(92 - (Abs(nyOf(i) - 50) * 18) \div 10
                         - (elevations[i] * 55) \div SCALE + (depths[i] * 25) \div SCALE, 0, SCALE)
  IN [heightmap |-> elevations,
      water |-> depths,
      moisture |-> [i \in 1..size |-> moistureAt(i)],
      temperature |-> [i \in 1..size |-> temperatureAt(i)],
      biome |-> [i \in 1..size |-> pickBiomeByElevation(elevations[i], moistureAt(i), temperatureAt(i))],
      flow |-> [i \in 1..size |-> SlopeFlowAt(elevations, p.width, p.height, i)],
      seaLevel |-> archipelagoSea,
      rngAfter |-> RngAdvance(generator, 2 + 4 * islandCount + size)]

-----------------------------------------------------------------------------
(* generators/runtime.ts *)

(* lines 53-62 (createRng): state of a new generator, next state, value *)
createRng(seed) == seed % RNG_MODULUS

MulberryNext(state) == (state + 7) % RNG_MODULUS

RECURSIVE MulberryAdvance(_, _)
MulberryAdvance(state, n) ==
  IF n > 0 /\ state \in 0..(RNG_MODULUS - 1) THEN MulberryAdvance(MulberryNext(state), n - 1) ELSE state

MulberryValue(state, n) ==
  (((MulberryAdvance(state, n) * 11 + 5) % RNG_MODULUS) * SCALE) \div RNG_MODULUS

(* Math.pow(v, 0.8) in hundredths, on the grid of POW_STEPS steps: the     *)
(* largest k with (k/POW_STEPS)^5 <= (v/POW_STEPS)^4                       *)
Pow08(v) ==
  LET u == (v * POW_STEPS) \div SCALE
      k == CHOOSE k \in 0..(2 * POW_STEPS) :
             /\ k * k * k * k * k <= u * u * u * u * POW_STEPS
             /\ \A j \in (k + 1)..(2 * POW_STEPS) : j * j * j * j * j > u * u * u * u * POW_STEPS
  IN (k * SCALE) \div POW_STEPS

(* lines 200-205 *)
runtimeTemperature(h, yNorm) ==
  LET latitude == Abs(yNorm - 50) * 2
      lapseRate == ((SCALE - h) * 60) \div SCALE
      base == SCALE - (latitude * 90) \div SCALE
  IN clamp(base + lapseRate - (h * 40) \div SCALE, 0, SCALE)

(* lines 181-198 for cell i of a w x h grid *)
FlowFieldAt(hm, w, h, i) ==
  LET x == (i - 1) % w
      y == (i - 1) \div w
      left == IF x > 0 THEN hm[i - 1] ELSE hm[i]
      right == IF x < w - 1 THEN hm[i + 1] ELSE hm[i]
      top == IF y > 0 THEN hm[i - w] ELSE hm[i]
      bottom == IF y < h - 1 THEN hm[i + w] ELSE hm[i]
      dx == right - left
      dy == bottom - top
  IN clamp(Sqrt(dx * dx + dy * dy) \div 2, 0, SCALE)

(* a distance larger than any in the unit square, for Number.POSITIVE_INFINITY *)
FAR == 100000

(* lines 303-314: scan of the points k..cellCount *)
RECURSIVE NearestPoints(_, _, _, _, _, _)
NearestPoints(state, k, cellCount, xNorm, yNorm, acc) ==
  IF k > cellCount THEN acc
  ELSE LET px == MulberryValue(state, 3 * (k - 1) + 1)
           py == MulberryValue(state, 3 * (k - 1) + 2)
           heightBias == MulberryValue(state, 3 * (k - 1) + 3)
           dx == xNorm - px
           dy == yNorm - py
           distance == Sqrt(dx * dx + dy * dy)
       IN NearestPoints(state, k + 1, cellCount, xNorm, yNorm,
            IF distance < acc.nearest
            THEN [nearest |-> distance, second |-> acc.nearest, bias |-> heightBias]
            ELSE IF distance < acc.second
                 THEN [acc EXCEPT !.second = distance]
                 ELSE acc)

(* lines 270-349; ridgeSharpness is at its default 0.7 *)
generateVoronoiRealms(p) ==
  LET points == RoundHundredths(clamp(p.cellCount * SCALE, 3 * SCALE, 120 * SCALE))
      ridgeSharpness == 70
      realmSea == clamp(p.seaLevel, 25, 80)
      generator == createRng(p.seed)
      size == p.width * p.height
      xNormOf(i) == (((i - 1) % p.width) * SCALE) \div (IF p.width - 1 = 0 THEN 1 ELSE p.width - 1)
      yNormOf(i) == (((i - 1) \div p.width) * SCALE) \div (IF p.height - 1 = 0 THEN 1 ELSE p.height - 1)
      near(i) == NearestPoints(generator, 1, points, xNormOf(i), yNormOf(i),
                               [nearest |-> FAR, second |-> FAR, bias |-> 0])
      heightValue(i) ==
        LET n == near(i)
            ridge == clamp((Pow08(n.second - n.nearest) * ridgeSharpness) \div SCALE, 0, SCALE)
            continentalShelf == clamp(SCALE - (n.nearest * 135) \div SCALE + (n.bias * 25) \div SCALE, 0, SCALE)
            border == Min2(Min2(xNormOf(i), SCALE - xNormOf(i)), Min2(yNormOf(i), SCALE - yNormOf(i)))
            coastPull == clamp((border * 18) \div 10, 0, SCALE)
        IN clamp((continentalShelf * 70) \div SCALE + (ridge * 40) \div SCALE
                   + (coastPull * 20) \div SCALE, 0, SCALE)
      heights == [i \in 1..size |-> heightValue(i)]
      moistures == [i \in 1..size |->
                  clamp(35 + ((SCALE - near(i).nearest) * 50) \div SCALE
                          + (near(i).bias * 15) \div SCALE, 0, SCALE)]
      temperatures == [i \in 1..size |-> runtimeTemperature(heights[i], yNormOf(i))]
      flows == [i \in 1..size |-> FlowFieldAt(heights, p.width, p.height, i)]
      waters == [i \in 1..size |->
                LET shelf == clamp((realmSea - heights[i]) * 5, 0, SCALE)
                    faultWater == clamp(Quot((flows[i] - 8) * 15, 10), 0, SCALE)
                IN clamp(shelf + faultWater, 0, SCALE)]
  IN [heightmap |-> heights, water |-> waters, moisture |-> moistures, temperature |-> temperatures,
      biome |-> [i \in 1..size |-> computeBiome(heights[i], moistures[i], temperatures[i], waters[i], realmSea)],
      flow |-> flows,
      rngAfter |-> MulberryAdvance(generator, 3 * points)]

(* lines 22-35 (createTerrainRuntime run): the module obtained from         *)
(* loadTerrainWasm is the JavaScript fallback; absent options take the      *)
(* defaults of lines 30-34 (warpStrength 60, erosionIterations 2,           *)
(* elevationAmplitude 1, moistureScale 1)                                   *)
runTerrainRuntime(p) ==
  generate_map([width |-> p.width, height |-> p.height, seed |-> p.seed,
                seaLevel |-> p.seaLevel, elevationAmplitude |-> SCALE,
                warpStrength |-> 60, erosionIterations |-> 2,
                moistureScale |-> SCALE])

-----------------------------------------------------------------------------
(* Sequences of generator calls *)

Seeds == {1, 2}

CallWidth == 2

CallHeight == 2

Arrays(r) ==
  [heightmap |-> r.heightmap, flow |-> r.flow, moisture |-> r.moisture,
   temperature |-> r.temperature, water |-> r.water, biome |-> r.biome]

InitCalls ==
  /\ pc = "idle"
  /\ callLog = <<>>
  /\ roadGraph = NoRoadGraph
  /\ generatorResult = NoResult /\ arrays = <<>> /\ appIdle
  /\ rng = 0
  /\ ENGINE_RUNTIME_CACHE = {}
  /\ emptyGrid
  /\ sample = NoSample /\ verdict = NoSample
  /\ limit = 0 /\ settlements = <<>>

Returned(generator, args, r) ==
  /\ callLog' = Append(callLog, [generator |-> generator, args |-> args, result |-> Arrays(r)])
  /\ rng' = r.rngAfter
  /\ UNCHANGED <<pc, gridVars, sample, verdict, limit, settlements, roadGraph, generatorResult, arrays, appVars>>

(* the arguments of the calls to generate_map *)
GenerateMapArgs ==
  {[width |-> CallWidth, height |-> CallHeight, seed |-> seed, seaLevel |-> 50,
    elevationAmplitude |-> SCALE, warpStrength |-> warpStrength,
    erosionIterations |-> 2, moistureScale |-> SCALE] :
     seed \in Seeds, warpStrength \in {0, 60}}

(* the arguments of the calls to generateArchipelago *)
ArchipelagoArgs ==
  {[width |-> CallWidth, height |-> CallHeight, seed |-> seed,
    islandDensity |-> islandDensity] : seed \in Seeds, islandDensity \in {90, 200}}

(* the arguments of the calls to runGenerator *)
RunGeneratorArgs ==
  {[generatorId |-> "terrain-wasm", width |-> CallWidth, height |-> CallHeight,
    seed |-> seed, seaLevel |-> 50, cellCount |-> 0] : seed \in Seeds}
  \cup
  {[generatorId |-> "voronoi-realms", width |-> CallWidth, height |-> CallHeight,
    seed |-> seed, seaLevel |-> 50, cellCount |-> cellCount] :
     seed \in Seeds, cellCount \in {3, 5}}

(* each call paired with the map it computes *)
GenerateMapRuns == {<<args, generate_map(args)>> : args \in GenerateMapArgs}

ArchipelagoRuns == {<<args, generateArchipelago(args)>> : args \in ArchipelagoArgs}

RunGeneratorRuns ==
  {<<args, IF args.generatorId = "terrain-wasm"
           THEN runTerrainRuntime(args)
           ELSE generateVoronoiRealms(args)>> : args \in RunGeneratorArgs}

(* wasm/terrain-fallback.ts 53-108 *)
CallGenerateMap ==
  /\ Len(callLog) < MaxCalls
  /\ \E run \in GenerateMapRuns : Returned("generate_map", run[1], run[2])
  /\ UNCHANGED ENGINE_RUNTIME_CACHE

(* workers/custom-generators.ts 40-157 *)
CallGenerateArchipelago ==
  /\ Len(callLog) < MaxCalls
  /\ \E run \in ArchipelagoRuns : Returned("generateArchipelago", run[1], run[2])
  /\ UNCHANGED ENGINE_RUNTIME_CACHE

(* generators/runtime.ts 430-444: getRuntime creates the engine's runtime  *)
(* on first use and keeps it in ENGINE_RUNTIME_CACHE; run produces the map *)
CallRunGenerator ==
  /\ Len(callLog) < MaxCalls
  /\ \E run \in RunGeneratorRuns :
       /\ ENGINE_RUNTIME_CACHE' = ENGINE_RUNTIME_CACHE \cup {run[1].generatorId}
       /\ Returned("runGenerator", run[1], run[2])

NextCalls ==
  \/ CallGenerateMap
  \/ CallGenerateArchipelago
  \/ CallRunGenerator

SpecCalls == InitCalls /\ [][NextCalls]_vars

-----------------------------------------------------------------------------
(* generation/noise.ts: value noise.  Coordinates and values are in        *)
(* hundredths.  hash mixes its three integers with multiplications, xors   *)
(* and shifts of 32-bit words; the model keeps that it is a fixed function *)
(* of (x, y, seed) with values spread over [0,1], on RNG_MODULUS levels.   *)

(* noise.ts 19-24 *)
hash(x, y, seed) ==
  LET h == (x * 5 + y * 11 + seed * 7 + x * y * 3) % RNG_MODULUS
  IN (h * SCALE) \div (RNG_MODULUS - 1)

(* noise.ts 11-13 *)
fade(t) == (t * t * t * (((t * (6 * t - 15 * SCALE)) \div SCALE) + 10 * SCALE)) \div (SCALE * SCALE * SCALE)

(* noise.ts 26-43; Math.floor is the flooring division *)
valueNoise2D(x, y, seed) ==
  LET xi == x \div SCALE
      yi == y \div SCALE
      xf == x - xi * SCALE
      yf == y - yi * SCALE
      topLeft == hash(xi, yi, seed)
      topRight == hash(xi + 1, yi, seed)
      bottomLeft == hash(xi, yi + 1, seed)
      bottomRight == hash(xi + 1, yi + 1, seed)
      u == fade(xf)
      v == fade(yf)
      top == lerp(topLeft, topRight, u)
      bottom == lerp(bottomLeft, bottomRight, u)
  IN lerp(top, bottom, v)

(* noise.ts 55-61: octaves i..octaves-1 of fbm2D, as [sum, amplitudeSum]. *)
(* NextOctave takes the values of amplitude, frequency, sum and            *)
(* amplitudeSum at the end of iteration i                                  *)
RECURSIVE FbmOctaves(_, _, _, _, _, _, _, _)
FbmOctaves(x, y, seed, i, options, amplitude, frequency, acc) ==
  IF i >= options.octaves THEN acc
  ELSE LET noise == valueNoise2D(Quot(x * frequency, SCALE), Quot(y * frequency, SCALE),
                                 seed + i) * 2 - SCALE
           NextOctave[a \in Int, f \in Int, sum \in Int, amplitudeSum \in Int] ==
             FbmOctaves(x, y, seed, i + 1, options, a, f,
                        [sum |-> sum, amplitudeSum |-> amplitudeSum])
       IN NextOctave[(amplitude * options.gain) \div SCALE,
                     (frequency * options.lacunarity) \div SCALE,
                     acc.sum + Quot(noise * amplitude, SCALE),
                     acc.amplitudeSum + amplitude]

(* noise.ts 45-68 *)
fbm2D(x, y, seed, options) ==
  LET Ratio[sum \in Int, amplitudeSum \in Int] ==
        IF amplitudeSum = 0 THEN 0 ELSE Quot(sum * SCALE, amplitudeSum)
      total == FbmOctaves(x, y, seed, 0, options, SCALE, SCALE,
                          [sum |-> 0, amplitudeSum |-> 0])
  IN Ratio[total.sum, total.amplitudeSum]

(* noise.ts 102-121 without the test of strength *)
domainWarpAlways(x, y, seed, strength, scale) ==
  LET warpScale == (scale * 130) \div SCALE
      dx == valueNoise2D(Quot(x * warpScale, SCALE) + 1970, Quot(y * warpScale, SCALE) + 4330,
                         seed + 101) * 2 - SCALE
      dy == valueNoise2D(Quot(x * warpScale, SCALE) + 7310, Quot(y * warpScale, SCALE) + 1180,
                         seed + 203) * 2 - SCALE
  IN [x |-> x + Quot(dx * strength, SCALE), y |-> y + Quot(dy * strength, SCALE)]

(* noise.ts 102-121 *)
domainWarp(x, y, seed, strength, scale) ==
  IF strength <= 0 THEN [x |-> x, y |-> y]
  ELSE LET warpScale == (scale * 130) \div SCALE
           dx == valueNoise2D(Quot(x * warpScale, SCALE) + 1970, Quot(y * warpScale, SCALE) + 4330,
                              seed + 101) * 2 - SCALE
           dy == valueNoise2D(Quot(x * warpScale, SCALE) + 7310, Quot(y * warpScale, SCALE) + 1180,
                              seed + 203) * 2 - SCALE
       IN [x |-> x + Quot(dx * strength, SCALE), y |-> y + Quot(dy * strength, SCALE)]

(* noise.ts 123-126 *)
smoothstep(edge0, edge1, x) ==
  LET t == clamp(Quot((x - edge0) * SCALE, edge1 - edge0), 0, SCALE)
  IN (t * t * (3 * SCALE - 2 * t)) \div (SCALE * SCALE)

-----------------------------------------------------------------------------
(* generation/systems.ts: generateContinental *)

(* systems.ts 59-108: the cell at (x, y).  p holds params; warpStrength    *)
(* and erosionIterations are plain numbers, the other shaping parameters   *)
(* hundredths.  erosionIterations is 2 in every call of the model, where   *)
(* the exponent 1.05 - smoothing * 0.3 of line 90 is exactly 1.  The body  *)
(* of the loop is cut where a value is used by several later lines:        *)
(* Elevate is lines 75-90 for the value of warped, Drain lines 92-98 for   *)
(* that of elevation, Finish lines 99-108 for that of riverBase.           *)
ContinentalCell(x, y, p) ==
  LET amplitude == clamp(p.elevationAmplitude, 20, 300)
      warp == (clamp(p.warpStrength, 0, 400) * SCALE) \div 220
      erosion == clamp(p.erosionIterations, 0, 12)
      featureScale == clamp(p.featureScale, 30, 350)
      humidityScale == clamp(p.moistureScale, 20, 300)
      relativeSea == clamp(p.seaLevel, 5, 95)
      riverFactor == clamp(p.riverStrength, 0, 200)
      temperatureBias == Quot(clamp(p.temperatureBias, 0 - SCALE, SCALE), 2)
      ny == IF p.height > 1 THEN (y * SCALE) \div (p.height - 1) ELSE 0
      py == ny - 50
      nx == IF p.width > 1 THEN (x * SCALE) \div (p.width - 1) ELSE 0
      px == nx - 50
      radial == Sqrt(px * px + py * py)
      continentalShelf ==
        SCALE - smoothstep(28, 78, (radial * SCALE) \div clamp((80 * SCALE) \div featureScale, 45, SCALE))
      Finish[elevation \in Int, riverBase \in Int] ==
        LET depth == clamp(relativeSea - elevation, 0, SCALE)
            riverMask == (riverBase * riverBase * riverBase) \div (SCALE * SCALE)
            rivers == (((clamp(riverMask - 55, 0, SCALE) * ((riverFactor * 10) \div 16)) \div SCALE)
                        * (SCALE - elevation)) \div SCALE
            cellWater == clamp(depth + rivers, 0, SCALE)
            humidity == clamp((((cellWater * 65) \div SCALE + ((SCALE - elevation) * 35) \div SCALE)
                                * humidityScale) \div SCALE, 0, SCALE)
            latitude == (Abs(py) * 135) \div SCALE
            cellTemperature ==
              clamp(SCALE - latitude - (elevation * 55) \div SCALE + temperatureBias, 0, SCALE)
            cellFlow == clamp((cellWater * 70) \div SCALE + (rivers * 120) \div SCALE, 0, SCALE)
        IN applyCell(elevation, cellWater, humidity, cellTemperature, cellFlow, p.seaLevel)
      Drain[warped \in [x : Int, y : Int], elevation \in Int] ==
        LET riverNoise == fbm2D(Quot(warped.x * 21, 10) + 20000, Quot(warped.y * 21, 10) + 20000,
                                p.seed + 1200, [octaves |-> 3, gain |-> 58, lacunarity |-> 230])
        IN Finish[elevation, SCALE - Abs(riverNoise)]
      Elevate[warped \in [x : Int, y : Int]] ==
        LET base == fbm2D(warped.x, warped.y, p.seed,
                          [octaves |-> 5, gain |-> 52 + (erosion * 5) \div 12, lacunarity |-> 208])
            tectonic == fbm2D(Quot(px * featureScale * 7, 10 * SCALE) + 4050,
                              Quot(py * featureScale * 7, 10 * SCALE) + 8120, p.seed + 551,
                              [octaves |-> 3, gain |-> 60, lacunarity |-> 190])
            detail == fbm2D(Quot(warped.x * 32, 10), Quot(warped.y * 32, 10), p.seed + 880,
                            [octaves |-> 2, gain |-> 55, lacunarity |-> 240])
            raw == Quot((Quot(base * 55 + tectonic * 35 + detail * 15 + continentalShelf * 50, SCALE)
                          - 10) * SCALE, SCALE + (erosion * 40) \div 12)
            unitElevation == clamp(Quot(raw + SCALE, 2), 0, SCALE)
        IN Drain[warped, (unitElevation * amplitude) \div SCALE]
  IN Elevate[domainWarp(Quot(px * featureScale * 14, 10 * SCALE),
                        Quot(py * featureScale * 14, 10 * SCALE),
                        p.seed, (warp * 75) \div SCALE, featureScale)]

RECURSIVE ContinentalCells(_, _)
(* systems.ts 58-110: the cells of indices 0..n-1, in index order *)
ContinentalCells(n, p) ==
  IF n = 0 THEN <<>>
  ELSE Append(ContinentalCells(n - 1, p),
              ContinentalCell((n - 1) % p.width, (n - 1) \div p.width, p))

(* systems.ts 45-113 *)
generateContinental(p) ==
  LET cells == ContinentalCells(p.width * p.height, p)
      n == p.width * p.height
  IN [heightmap |-> [k \in 1..n |-> cells[k].heightmap],
      flow |-> [k \in 1..n |-> cells[k].flow],
      moisture |-> [k \in 1..n |-> cells[k].moisture],
      temperature |-> [k \in 1..n |-> cells[k].temperature],
      water |-> [k \in 1..n |-> cells[k].water],
      biome |-> [k \in 1..n |-> cells[k].biome]]

(* systems.ts 318-333: the case 'continental' of the switch *)
runGeneratorSystems(p) == generateContinental(p)

(* the bounds of the clamps of systems.ts 49-56, by parameter *)
NearestBound(p) ==
  [p EXCEPT !.elevationAmplitude = clamp(@, 20, 300),
            !.warpStrength = clamp(@, 0, 400),
            !.erosionIterations = clamp(@, 0, 12),
            !.featureScale = clamp(@, 30, 350),
            !.moistureScale = clamp(@, 20, 300),
            !.seaLevel = clamp(@, 5, 95),
            !.riverStrength = clamp(@, 0, 200),
            !.temperatureBias = clamp(@, 0 - SCALE, SCALE)]

MaxShapeCalls == 2

ShapeWidth == 2

ShapeHeight == 1

(* the arguments of the calls to runGenerator of generation/systems.ts:    *)
(* shaping parameters inside, on and outside the bounds of lines 49-56     *)
ShapeArgs ==
  {[generatorType |-> "continental", width |-> ShapeWidth, height |-> ShapeHeight,
    seed |-> seed, elevationAmplitude |-> 20, warpStrength |-> warpStrength,
    erosionIterations |-> 2, featureScale |-> SCALE, moistureScale |-> SCALE,
    seaLevel |-> sea, riverStrength |-> riverStrength, temperatureBias |-> 0] :
     seed \in Seeds, warpStrength \in {0 - 10, 0, 60}, sea \in {0 - 50, 5, 95, 150},
     riverStrength \in {200, 300}}

ShapeRuns == {<<args, runGeneratorSystems(args)>> : args \in ShapeArgs}

(* systems.ts 318-333 *)
CallRunGeneratorSystems ==
  /\ Len(callLog) < MaxShapeCalls
  /\ \E run \in ShapeRuns :
       callLog' = Append(callLog, [generator |-> run[1].generatorType, args |-> run[1],
                                   result |-> run[2]])
  /\ UNCHANGED <<pc, gridVars, sample, verdict, limit, settlements, roadGraph, generatorResult, arrays, appVars, rng,
                 ENGINE_RUNTIME_CACHE>>

NextShape == CallRunGeneratorSystems

SpecShape == InitCalls /\ [][NextShape]_vars

(* C13: a call of runGenerator whose shaping parameters lie outside their  *)
(* clamp ranges returns the same GeneratorResult, biome included, as the   *)
(* call with each such parameter replaced by the nearest bound             *)
C13_OutOfRangeAsNearestBound ==
  \A i \in 1..Len(callLog) : \A j \in 1..Len(callLog) :
    (/\ callLog[i].generator = "continental"
     /\ callLog[j].generator = "continental"
     /\ callLog[j].args = NearestBound(callLog[i].args))
      => callLog[j].result = callLog[i].result

-----------------------------------------------------------------------------
(* Calls of domainWarp *)

WarpCoordinates == {0 - 70, 0 - 25, 0, 35, 70}

WarpStrengths == {0 - 50, 0 - 1, 0, 1, 27}

WarpScales == {30, SCALE, 350}

InitWarp ==
  /\ pc = "warp"
  /\ sample \in [x : WarpCoordinates, y : WarpCoordinates, seed : Seeds,
                 strength : WarpStrengths, scale : WarpScales]
  /\ verdict = NoSample
  /\ emptyGrid
  /\ limit = 0 /\ settlements = <<>> /\ callLog = <<>> /\ rng = 0
  /\ roadGraph = NoRoadGraph
  /\ generatorResult = NoResult /\ arrays = <<>> /\ appIdle
  /\ ENGINE_RUNTIME_CACHE = {}

(* noise.ts 102-121 *)
CallDomainWarp ==
  /\ pc = "warp"
  /\ verdict' = domainWarp(sample.x, sample.y, sample.seed, sample.strength, sample.scale)
  /\ pc' = "warped"
  /\ UNCHANGED <<gridVars, sample, limit, settlements, callLog, rng, roadGraph, generatorResult, arrays, appVars,
                 ENGINE_RUNTIME_CACHE>>

NextWarp == CallDomainWarp

SpecWarp == InitWarp /\ [][NextWarp]_vars

(* C14: for every strength <= 0, whatever the seed and the scale,          *)
(* domainWarp returns exactly the coordinates (x, y) it was given          *)
C14_NoWarpWithoutStrength ==
  (pc = "warped" /\ sample.strength <= 0)
    => (verdict.x = sample.x /\ verdict.y = sample.y)

(* a call with a negative strength at a place where the noise offsets are  *)
(* not zero, so that applying the offsets would move the point             *)
C14_Witness ==
  /\ pc = "warped"
  /\ sample.strength < 0
  /\ domainWarp(sample.x, sample.y, sample.seed, 0 - sample.strength, sample.scale)
       # [x |-> sample.x, y |-> sample.y]

-----------------------------------------------------------------------------
(* utils/noise.ts: warpCoordinates.  Coordinates, strengths and scales are *)
(* hundredths.  hash2d mixes its integers with shifts and xors of 32-bit   *)
(* words; the model keeps that it is a fixed function of (x, y, seed)      *)
(* with values spread over [0,1], on RNG_MODULUS levels.                   *)

(* utils/noise.ts 13-18, divided by UINT32_MAX as in lines 40-43 *)
hash2d(x, y, seed) ==
  LET h == (x * 7 + y * 13 + seed * 3 + x * y * 5) % RNG_MODULUS
  IN (h * SCALE) \div (RNG_MODULUS - 1)

(* utils/noise.ts 24-26 *)
smoothstepUnit(t) == (t * t * (3 * SCALE - 2 * t)) \div (SCALE * SCALE)

(* utils/noise.ts 28-49 *)
scaledValueNoise2D(x, y, scale, seed) ==
  LET Cell[sx \in Int, sy \in Int] ==
        LET x0 == sx \div SCALE
            y0 == sy \div SCALE
            tx == smoothstepUnit(sx - x0 * SCALE)
            ty == smoothstepUnit(sy - y0 * SCALE)
            ix0 == lerp(hash2d(x0, y0, seed), hash2d(x0 + 1, y0, seed), tx)
            ix1 == lerp(hash2d(x0, y0 + 1, seed), hash2d(x0 + 1, y0 + 1, seed), tx)
        IN lerp(ix0, ix1, ty)
  IN Cell[(x * SCALE) \div scale, (y * SCALE) \div scale]

(* utils/noise.ts 65-73: octaves octave..octaves-1 of fbmNoise2D, as        *)
(* [value, totalAmplitude]                                                  *)
RECURSIVE FbmNoiseOctaves(_, _, _, _, _, _, _)
FbmNoiseOctaves(x, y, options, octave, amplitude, frequency, acc) ==
  IF octave >= options.octaves THEN acc
  ELSE LET noise == scaledValueNoise2D(Quot(x * frequency, SCALE), Quot(y * frequency, SCALE),
                                       options.scale, options.seed + octave * 101)
           NextOctave[a \in Int, f \in Int, value \in Int, totalAmplitude \in Int] ==
             FbmNoiseOctaves(x, y, options, octave + 1, a, f,
                             [value |-> value, totalAmplitude |-> totalAmplitude])
       IN NextOctave[(amplitude * options.gain) \div SCALE,
                     (frequency * options.lacunarity) \div SCALE,
                     acc.value + Quot((noise * 2 - SCALE) * amplitude, SCALE),
                     acc.totalAmplitude + amplitude]

(* utils/noise.ts 59-80 *)
fbmNoise2D(x, y, options) ==
  LET Ratio[value \in Int, totalAmplitude \in Int] ==
        IF totalAmplitude <= 0 THEN 0 ELSE Quot(value * SCALE, totalAmplitude)
      total == FbmNoiseOctaves(x, y, options, 0, SCALE, SCALE,
                               [value |-> 0, totalAmplitude |-> 0])
  IN Ratio[total.value, total.totalAmplitude]

(* utils/noise.ts 87-112; seed ^ 0xdeadbeef and seed ^ 0xbaadf00d are two  *)
(* seeds derived from seed                                                 *)
warpCoordinates(x, y, seed, strength, scale) ==
  IF strength = 0 THEN <<x, y>>
  ELSE LET dx == fbmNoise2D(x + seed * 137, y - seed * 91,
                            [octaves |-> 3, lacunarity |-> 210, gain |-> 50, scale |-> scale,
                             seed |-> seed + 3])
           dy == fbmNoise2D(x - seed * 73, y + seed * 121,
                            [octaves |-> 3, lacunarity |-> 205, gain |-> 55, scale |-> scale,
                             seed |-> seed + 5])
       IN <<x + Quot(dx * strength, SCALE), y + Quot(dy * strength, SCALE)>>

(* nx, ny of continental.ts 31-32 *)
NormalizedCoordinates == {0 - 100, 0 - 50, 0, 50}

(* warpStrength * 0.002 (continental.ts 34) for warpStrength -100, -5, 0,  *)
(* 5 and 100                                                               *)
ShearStrengths == {0 - 20, 0 - 1, 0, 1, 20}

InitShear ==
  /\ pc = "warpCoordinates"
  /\ sample \in [x : NormalizedCoordinates, y : NormalizedCoordinates, seed : Seeds,
                 strength : ShearStrengths, scale : {90, SCALE}]
  /\ verdict = NoSample
  /\ emptyGrid
  /\ limit = 0 /\ settlements = <<>> /\ callLog = <<>> /\ rng = 0
  /\ roadGraph = NoRoadGraph
  /\ generatorResult = NoResult /\ arrays = <<>> /\ appIdle
  /\ ENGINE_RUNTIME_CACHE = {}

(* continental.ts 34 *)
CallWarpCoordinates ==
  /\ pc = "warpCoordinates"
  /\ verdict' = warpCoordinates(sample.x, sample.y, sample.seed, sample.strength, sample.scale)
  /\ pc' = "returned"
  /\ UNCHANGED <<gridVars, sample, limit, settlements, callLog, rng, roadGraph,
                 generatorResult, arrays, appVars, ENGINE_RUNTIME_CACHE>>

NextShear == CallWarpCoordinates

SpecShear == InitShear /\ [][NextShear]_vars

(* C22: warpCoordinates returns the coordinates [x, y] it was given for    *)
(* every strength <= 0, negative strengths included, so that a negative    *)
(* warp parameter gives the terrain of a warp parameter of 0               *)
C22_NoShearWithoutStrength ==
  (pc = "returned" /\ sample.strength <= 0) => verdict = <<sample.x, sample.y>>

-----------------------------------------------------------------------------
(* The generatorResult store and applyBrushStroke *)

(* terrainProcessing.ts 58-63: the accumulation loop from position k on *)
RECURSIVE Accumulate(_, _, _, _)
Accumulate(ord, k, ds, fl) ==
  IF k > Len(ord) THEN fl
  ELSE LET cell == ord[k]
           target == ds[cell]
       IN Accumulate(ord, k + 1, ds,
                     IF target # 0 THEN [fl EXCEPT ![target] = fl[target] + fl[cell]] ELSE fl)

(* terrainProcessing.ts 19-81 *)
buildFlowMap(hm, sea) ==
  LET fl == Accumulate(ProcessingOrder(hm), 1, Downslope(hm), [i \in Cells |-> 1])
  IN [flow |-> fl,
      water |-> [i \in Cells |-> WaterOf(hm[i], fl[i], MaxFlow(fl), sea)]]

(* finalizeTerrain lines 187-200 and applyBrushStroke lines 230-234: the   *)
(* arrays derived from a heightmap and a moisture field                    *)
DerivedArrays(hm, m, sea, scale) ==
  LET fm == buildFlowMap(hm, sea)
      temp == [i \in Cells |-> TemperatureOf(CellY(i), hm[i], sea)]
      moist == [i \in Cells |->
                  EnhancedMoisture(m[i], fm.water[i], fm.flow[i], MaxFlow(fm.flow), scale)]
  IN [flow |-> fm.flow, water |-> fm.water, moisture |-> moist, temperature |-> temp,
      biome |-> [i \in Cells |->
                   classifyBiomes(hm[i], fm.water[i], temp[i], moist[i], sea)]]

MaxStrokes == 2

BrushWidth == 2

BrushHeight == 1

(* raw elevations of the generated map *)
BrushRawElevations == {0, 5}

(* BrushMode and the settings set through setBrushSize and setBrushMode;   *)
(* strength and targetHeight in hundredths                                 *)
BrushSettings ==
  [size : {1, 2}, strength : {30}, mode : {"raise", "lower", "flatten", "water"},
   targetHeight : {55}]

(* noise.ts 201-202: (x - mapX) / (radiusX || 1), in hundredths *)
BrushOffset(c, map, radius) == Quot((c - map) * SCALE, IF radius = 0 THEN 1 ELSE radius)

(* noise.ts 195-227 for the cell (x, y); scaleX = scaleY = 1 *)
BrushedValue(current, x, y, mapX, mapY, settings, sea) ==
  LET radius == settings.size
      dx == BrushOffset(x, mapX, radius)
      dy == BrushOffset(y, mapY, radius)
      inBox == Abs(x - mapX) <= radius /\ Abs(y - mapY) <= radius
      squared == (dx * dx + dy * dy) \div SCALE
      falloff == SCALE - squared
      delta == (settings.strength * falloff) \div SCALE
  IN IF ~inBox \/ squared > SCALE THEN current
     ELSE IF settings.mode = "raise" THEN Min2(SCALE, current + delta)
     ELSE IF settings.mode = "lower" THEN Max2(0, current - delta)
     ELSE IF settings.mode = "flatten"
          THEN current + Quot((settings.targetHeight - current) * delta, SCALE)
     ELSE Max2(0, sea - delta * 2)

(* State before the first map arrives: the store holds null; seaLevel and  *)
(* moistureScale are the values of the generatorParameters store           *)
InitBrush ==
  /\ pc = "idle"
  /\ width = BrushWidth
  /\ height = BrushHeight
  /\ seaLevel = 50
  /\ moistureScale = 120
  /\ heightmap = <<>> /\ moisture = <<>>
  /\ downslope = <<>> /\ order = <<>> /\ cursor = 0
  /\ flow = <<>> /\ water = <<>> /\ temperature = <<>> /\ biome = <<>>
  /\ idle

brushFrame == <<pc, gridVars, sample, verdict, limit, settlements, callLog, rng,
                roadGraph, appVars, ENGINE_RUNTIME_CACHE>>

(* routes/+page.svelte 61: generatorResult.set(message.payload); the       *)
(* payload is the map a runner built with finalizeTerrain                  *)
ReceiveResult ==
  /\ ~generatorResult.held
  /\ \E raw \in [Cells -> BrushRawElevations] : \E m \in BaseMoistures :
       LET hm == NormalizedHeightmap(raw)
           d == DerivedArrays(hm, [i \in Cells |-> m], seaLevel, moistureScale)
       IN /\ arrays' = <<hm, d.flow, d.water, d.moisture, d.temperature, d.biome>>
          /\ generatorResult' = [held |-> TRUE, heightmap |-> 1, flow |-> 2, water |-> 3,
                                 moisture |-> 4, temperature |-> 5, biome |-> 6]
  /\ UNCHANGED brushFrame

(* noise.ts 172-248 *)
ApplyBrushStroke ==
  /\ generatorResult.held
  /\ Len(arrays) < 6 * (1 + MaxStrokes)
  /\ \E settings \in BrushSettings : \E mapX \in {0, width - 1} : \E mapY \in {0, height - 1} :
       LET result == generatorResult
           brushed == [i \in Cells |->
                         BrushedValue(arrays[result.heightmap][i], CellX(i), CellY(i),
                                      mapX, mapY, settings, seaLevel)]
           d == DerivedArrays(brushed, arrays[result.moisture], seaLevel, moistureScale)
           n == Len(arrays)
       IN /\ arrays' = [arrays EXCEPT ![result.heightmap] = brushed]
                         \o <<brushed, d.flow, d.water, d.moisture, d.temperature, d.biome>>
          /\ generatorResult' = [held |-> TRUE, heightmap |-> n + 1, flow |-> n + 2,
                                 water |-> n + 3, moisture |-> n + 4,
                                 temperature |-> n + 5, biome |-> n + 6]
  /\ UNCHANGED brushFrame

NextBrush ==
  \/ ReceiveResult
  \/ ApplyBrushStroke

SpecBrush == InitBrush /\ [][NextBrush]_vars

(* C17: a GeneratorResult is immutable once returned: a stroke leaves the  *)
(* values of every array of the result the store held before it unchanged, *)
(* and the result it stores shares no array with that earlier result       *)
C17_ReturnedResultImmutable ==
  [][(generatorResult.held /\ generatorResult' # generatorResult) =>
       /\ \A f \in ArrayFields : arrays'[generatorResult[f]] = arrays[generatorResult[f]]
       /\ \A f \in ArrayFields : \A g \in ArrayFields : generatorResult'[f] # generatorResult[g]]_vars

-----------------------------------------------------------------------------
(* wasm/terrain.ts, part_004: loadTerrainWasm *)

MaxRequests == 2

(* A promise is a record: a load promise is the chain of terrain.ts 23-36 *)
(* (phase "import" while the package is imported, "fallback" while the    *)
(* JavaScript generator is imported after a failure or for an absent      *)
(* package, "settled" once fulfilled); a call promise is the one an async *)
(* function call returns, resolved with the promise it follows.           *)
LoadRecord(phase) == [kind |-> "load", phase |-> phase, value |-> "none", follows |-> 0]

CallRecord(target) == [kind |-> "call", phase |-> "follows", value |-> "none", follows |-> target]

(* the promise whose settlement p waits for *)
Target(p) == IF promises[p].kind = "call" THEN promises[p].follows ELSE p

Fulfilled(p) == promises[Target(p)].phase = "settled"

(* a call that starts a load although one was started before *)
loadTerrainWasmUncached(absent) ==
  LET started == Append(promises, LoadRecord(IF absent THEN "fallback" ELSE "import"))
  IN [loadPromise |-> Len(started),
      promises |-> Append(started, CallRecord(Len(started))),
      returned |-> Len(started) + 1]

(* terrain.ts 20-40, part_004 32-60, up to the return: absent says that   *)
(* the wasm-pack loader is missing (part_004 38-42)                       *)
loadTerrainWasm(absent) ==
  LET started == IF loadPromise # 0 THEN promises
                 ELSE Append(promises, LoadRecord(IF absent THEN "fallback" ELSE "import"))
      cached == IF loadPromise # 0 THEN loadPromise ELSE Len(started)
  IN [loadPromise |-> cached,
      promises |-> Append(started, CallRecord(cached)),
      returned |-> Len(started) + 1]

workerFrame == <<pc, gridVars, sample, verdict, limit, settlements, callLog, rng,
                 roadGraph, generatorResult, arrays, generatorParameters>>

(* terrain.ts 24-30, part_004 45-52: the package is imported and initialised *)
ImportResolves ==
  /\ loadPromise # 0 /\ promises[loadPromise].phase = "import"
  /\ promises' = [promises EXCEPT ![loadPromise].phase = "settled",
                                  ![loadPromise].value = "wasm"]
  /\ UNCHANGED <<workerFrame, script, requests, posted, modulePromise, moduleLoaded,
                 moduleReady, loadPromise, isGenerating, delivered, ENGINE_RUNTIME_CACHE>>

(* terrain.ts 31-33, part_004 53-55: the import or the initialisation      *)
(* failed and the catch handler starts importing the fallback              *)
ImportRejects ==
  /\ loadPromise # 0 /\ promises[loadPromise].phase = "import"
  /\ promises' = [promises EXCEPT ![loadPromise].phase = "fallback"]
  /\ UNCHANGED <<workerFrame, script, requests, posted, modulePromise, moduleLoaded,
                 moduleReady, loadPromise, isGenerating, delivered, ENGINE_RUNTIME_CACHE>>

(* terrain.ts 33-35, part_004 26-30: the bundled fallback module is loaded *)
FallbackLoaded ==
  /\ loadPromise # 0 /\ promises[loadPromise].phase = "fallback"
  /\ promises' = [promises EXCEPT ![loadPromise].phase = "settled",
                                  ![loadPromise].value = "fallback"]
  /\ UNCHANGED <<workerFrame, script, requests, posted, modulePromise, moduleLoaded,
                 moduleReady, loadPromise, isGenerating, delivered, ENGINE_RUNTIME_CACHE>>

-----------------------------------------------------------------------------
(* workers/generator.worker.ts and part_006: ctx.onmessage *)

Scripts == {"generator.worker.ts", "part_006"}

MessageTypes == {"generate", "cancel"}

(* the engine that needs the terrain module, one that does not, and an id *)
(* no definition exists for                                               *)
GeneratorIds(s) ==
  IF s = "generator.worker.ts" THEN {"continental", "archipelago", "unknown"}
  ELSE {"terrain-wasm", "fractal-highlands", "unknown"}

Outcomes == {"ok", "throws"}

Status(r, stage) == [request |-> r, type |-> "status", stage |-> stage]

Terminal(r, type) == [request |-> r, type |-> type, stage |-> "none"]

(* a handler that posts the result without the transferring status *)
GeneratedWithoutTransferring(r, outcome) ==
  IF outcome = "ok"
  THEN <<Status(r, "generating"), Terminal(r, "result")>>
  ELSE <<Status(r, "generating"), Terminal(r, "error")>>

(* generator.worker.ts 60-88: what the handler of request r posts from the *)
(* generating status on, when runGenerator returns or throws               *)
Generated(r, outcome) ==
  IF outcome = "ok"
  THEN <<Status(r, "generating"), Status(r, "transferring"), Terminal(r, "result")>>
  ELSE <<Status(r, "generating"), Terminal(r, "error")>>

(* part_006 67-88: what the handler posts once runGenerator has settled *)
Transferred(r, outcome) ==
  IF outcome = "ok"
  THEN <<Status(r, "transferring"), Terminal(r, "result")>>
  ELSE <<Terminal(r, "error")>>

(* a worker that announces the load on every continental request *)
LoadingStatusAlways(r) == <<Status(r, "loading-module")>>

(* generator.worker.ts 46-48 *)
LoadingStatus(r) ==
  IF modulePromise = 0 THEN <<Status(r, "loading-module")>> ELSE <<>>

(* generator.worker.ts 54-57 *)
ReadyStatus(r) ==
  IF ~moduleLoaded THEN <<Status(r, "module-ready")>> ELSE <<>>

InitWorker ==
  /\ pc = "worker"
  /\ width = 1 /\ height = 1
  /\ heightmap = <<>> /\ seaLevel = 0 /\ moistureScale = 0
  /\ downslope = <<>> /\ order = <<>> /\ cursor = 0
  /\ flow = <<>> /\ water = <<>> /\ moisture = <<>>
  /\ temperature = <<>> /\ biome = <<>>
  /\ roadGraph = NoRoadGraph
  /\ generatorResult = NoResult /\ arrays = <<>>
  /\ sample = NoSample /\ verdict = NoSample
  /\ limit = 0 /\ settlements = <<>> /\ callLog = <<>> /\ rng = 0
  /\ ENGINE_RUNTIME_CACHE = {}
  /\ script \in Scripts
  /\ requests = <<>> /\ posted = <<>>
  /\ modulePromise = 0 /\ moduleLoaded = FALSE /\ moduleReady = FALSE
  /\ loadPromise = 0 /\ promises = <<>>
  /\ isGenerating = FALSE /\ delivered = 0
  /\ generatorParameters = <<>>

(* a message for the worker: another script calls worker.postMessage *)
PostToWorker ==
  /\ Len(requests) < MaxRequests
  /\ \E type \in MessageTypes : \E id \in GeneratorIds(script) :
       requests' = Append(requests, [type |-> type, generatorId |-> id,
                                     pc |-> "queued", awaits |-> 0])
  /\ UNCHANGED <<workerFrame, script, posted, modulePromise, moduleLoaded, moduleReady,
                 loadPromise, promises, isGenerating, delivered, ENGINE_RUNTIME_CACHE>>

(* messages are dispatched in the order they were posted *)
NextQueued(r) ==
  /\ r \in 1..Len(requests)
  /\ requests[r].pc = "queued"
  /\ \A q \in 1..(r - 1) : requests[q].pc # "queued"

(* generator.worker.ts 31-89, from the dispatch of the message to the      *)
(* await of line 52 or, for an engine without module, to the end           *)
ReceiveMessage(r) ==
  /\ script = "generator.worker.ts"
  /\ NextQueued(r)
  /\ IF requests[r].type # "generate"
     THEN /\ requests' = [requests EXCEPT ![r].pc = "done"]
          /\ UNCHANGED <<posted, modulePromise, loadPromise, promises>>
     ELSE IF requests[r].generatorId = "unknown"
     THEN /\ requests' = [requests EXCEPT ![r].pc = "done"]
          /\ posted' = Append(posted, Terminal(r, "error"))
          /\ UNCHANGED <<modulePromise, loadPromise, promises>>
     ELSE IF requests[r].generatorId = "continental"
     THEN /\ posted' = posted \o LoadingStatus(r)
          /\ IF modulePromise = 0
             THEN \E absent \in BOOLEAN :
                    /\ promises' = loadTerrainWasm(absent).promises
                    /\ loadPromise' = loadTerrainWasm(absent).loadPromise
                    /\ modulePromise' = loadTerrainWasm(absent).returned
             ELSE UNCHANGED <<modulePromise, loadPromise, promises>>
          /\ requests' = [requests EXCEPT ![r].pc = "awaitModule"]
     ELSE /\ \E outcome \in Outcomes : posted' = posted \o Generated(r, outcome)
          /\ requests' = [requests EXCEPT ![r].pc = "done"]
          /\ UNCHANGED <<modulePromise, loadPromise, promises>>
  /\ UNCHANGED <<workerFrame, script, moduleLoaded, moduleReady, isGenerating,
                 delivered, ENGINE_RUNTIME_CACHE>>

(* generator.worker.ts 52-88: the handler continues after the await;      *)
(* handlers waiting for the same promise continue in the order they began *)
ModuleAwaited(r) ==
  /\ script = "generator.worker.ts"
  /\ r \in 1..Len(requests)
  /\ requests[r].pc = "awaitModule"
  /\ \A q \in 1..(r - 1) : requests[q].pc # "awaitModule"
  /\ Fulfilled(modulePromise)
  /\ \E outcome \in Outcomes :
       posted' = posted \o ReadyStatus(r) \o Generated(r, outcome)
  /\ moduleLoaded' = TRUE
  /\ requests' = [requests EXCEPT ![r].pc = "done"]
  /\ UNCHANGED <<workerFrame, script, modulePromise, moduleReady, loadPromise, promises,
                 isGenerating, delivered, ENGINE_RUNTIME_CACHE>>

(* part_006 43-52 with ensureResources 34-37: from the dispatch to the     *)
(* await of loadTerrainWasm or of ensureResources                          *)
ReceiveWithResources(r) ==
  /\ script = "part_006"
  /\ NextQueued(r)
  /\ IF requests[r].type # "generate"
     THEN /\ requests' = [requests EXCEPT ![r].pc = "done"]
          /\ UNCHANGED <<posted, loadPromise, promises>>
     ELSE IF requests[r].generatorId = "terrain-wasm" /\ ~moduleReady
     THEN /\ posted' = Append(posted, Status(r, "loading-module"))
          /\ \E absent \in BOOLEAN :
               /\ promises' = loadTerrainWasm(absent).promises
               /\ loadPromise' = loadTerrainWasm(absent).loadPromise
               /\ requests' = [requests EXCEPT ![r].pc = "awaitLoad",
                                               ![r].awaits = loadTerrainWasm(absent).returned]
     ELSE /\ requests' = [requests EXCEPT ![r].pc = "awaitResources"]
          /\ UNCHANGED <<posted, loadPromise, promises>>
  /\ UNCHANGED <<workerFrame, script, modulePromise, moduleLoaded, moduleReady,
                 isGenerating, delivered, ENGINE_RUNTIME_CACHE>>

(* part_006 37-40: ensureResources continues after loadTerrainWasm, the   *)
(* earliest caller first                                                  *)
LoadAwaited(r) ==
  /\ script = "part_006"
  /\ r \in 1..Len(requests)
  /\ requests[r].pc = "awaitLoad"
  /\ \A q \in 1..(r - 1) : requests[q].pc # "awaitLoad"
  /\ Fulfilled(requests[r].awaits)
  /\ moduleReady' = TRUE
  /\ posted' = Append(posted, Status(r, "module-ready"))
  /\ requests' = [requests EXCEPT ![r].pc = "awaitResources"]
  /\ UNCHANGED <<workerFrame, script, modulePromise, moduleLoaded, loadPromise, promises,
                 isGenerating, delivered, ENGINE_RUNTIME_CACHE>>

(* part_006 54-65: the generating status and the call of runGenerator      *)
(* (runtime.ts 430-444; the terrain runtime calls loadTerrainWasm the      *)
(* first time it runs, runtime.ts 14-23)                                   *)
StartGeneration(r) ==
  /\ script = "part_006"
  /\ r \in 1..Len(requests)
  /\ requests[r].pc = "awaitResources"
  /\ posted' = Append(posted, Status(r, "generating"))
  /\ requests' = [requests EXCEPT ![r].pc = "awaitGenerator"]
  /\ IF requests[r].generatorId = "unknown"
     THEN UNCHANGED <<ENGINE_RUNTIME_CACHE, loadPromise, promises>>
     ELSE /\ ENGINE_RUNTIME_CACHE' = ENGINE_RUNTIME_CACHE \cup {requests[r].generatorId}
          /\ IF requests[r].generatorId = "terrain-wasm"
                  /\ "terrain-wasm" \notin ENGINE_RUNTIME_CACHE
             THEN \E absent \in BOOLEAN :
                    /\ promises' = loadTerrainWasm(absent).promises
                    /\ loadPromise' = loadTerrainWasm(absent).loadPromise
             ELSE UNCHANGED <<loadPromise, promises>>
  /\ UNCHANGED <<workerFrame, script, modulePromise, moduleLoaded, moduleReady,
                 isGenerating, delivered>>

(* part_006 65-88: the handler continues when runGenerator has settled *)
FinishGeneration(r) ==
  /\ script = "part_006"
  /\ r \in 1..Len(requests)
  /\ requests[r].pc = "awaitGenerator"
  /\ requests[r].generatorId = "terrain-wasm" => Fulfilled(loadPromise)
  /\ \E outcome \in Outcomes :
       /\ requests[r].generatorId = "unknown" => outcome = "throws"
       /\ posted' = posted \o Transferred(r, outcome)
  /\ requests' = [requests EXCEPT ![r].pc = "done"]
  /\ UNCHANGED <<workerFrame, script, modulePromise, moduleLoaded, moduleReady,
                 loadPromise, promises, isGenerating, delivered, ENGINE_RUNTIME_CACHE>>

WorkerStep ==
  \/ ImportResolves
  \/ ImportRejects
  \/ FallbackLoaded
  \/ \E r \in 1..MaxRequests : ReceiveMessage(r)
  \/ \E r \in 1..MaxRequests : ModuleAwaited(r)
  \/ \E r \in 1..MaxRequests : ReceiveWithResources(r)
  \/ \E r \in 1..MaxRequests : LoadAwaited(r)
  \/ \E r \in 1..MaxRequests : StartGeneration(r)
  \/ \E r \in 1..MaxRequests : FinishGeneration(r)

NextWorker == PostToWorker \/ WorkerStep

SpecWorker == InitWorker /\ [][NextWorker]_vars

(* the event loop runs every task that is ready, and an import settles *)
SpecWorkerLive == SpecWorker /\ WF_vars(WorkerStep)

(* the positions in posted of the messages of request r with this type and stage *)
PostedAt(r, type, stage) ==
  {i \in 1..Len(posted) : posted[i] = [request |-> r, type |-> type, stage |-> stage]}

TerminalsOf(r) == PostedAt(r, "result", "none") \cup PostedAt(r, "error", "none")

C25_RepliesWellFormed ==
  \A r \in 1..Len(requests) :
    /\ Cardinality(TerminalsOf(r)) <= 1
    /\ (requests[r].type = "generate" /\ requests[r].pc = "done")
         => Cardinality(TerminalsOf(r)) = 1
    /\ requests[r].type # "generate"
         => \A i \in 1..Len(posted) : posted[i].request # r
    /\ \A i \in PostedAt(r, "result", "none") :
         \E j \in PostedAt(r, "status", "generating") :
           \E k \in PostedAt(r, "status", "transferring") : j < k /\ k < i

(* C25: for every 'generate' message it receives the worker posts exactly  *)
(* one terminal message, a 'result' or an 'error', never both and never    *)
(* neither; a 'result' comes after a 'generating' and then a               *)
(* 'transferring' status of the same request; a message of another type    *)
(* gets no reply.                                                          *)
C25_OneTerminalMessagePerRequest ==
  /\ []C25_RepliesWellFormed
  /\ \A r \in 1..MaxRequests :
       (Len(requests) >= r /\ requests[r].type = "generate")
         ~> (Len(requests) >= r /\ Cardinality(TerminalsOf(r)) = 1)

(* both scripts' cases: a result after an error of another request, with a *)
(* message of another type in between that got no reply                    *)
C25_Witness ==
  /\ Len(requests) = MaxRequests
  /\ \A r \in 1..Len(requests) : requests[r].pc = "done"
  /\ \E r \in 1..Len(requests) : PostedAt(r, "result", "none") # {}
  /\ \E r \in 1..Len(requests) :
       \/ PostedAt(r, "error", "none") # {}
       \/ requests[r].type # "generate"

(* the positions in posted of the statuses of this stage *)
StatusesAt(stage) == {i \in 1..Len(posted) : posted[i].stage = stage}

(* the module loads started so far *)
LoadsStarted == {p \in 1..Len(promises) : promises[p].kind = "load"}

(* C26: in generator.worker.ts, however the 'generate' requests interleave *)
(* (a second one may arrive while the first awaits the module), the        *)
(* 'loading-module' status and the 'module-ready' status are each posted   *)
(* at most once, the module load is started at most once, and              *)
(* 'module-ready' is posted before the 'generating' status of every        *)
(* continental request.                                                    *)
C26_ModuleStatusesOnce ==
  script = "generator.worker.ts" =>
    /\ Cardinality(StatusesAt("loading-module")) <= 1
    /\ Cardinality(StatusesAt("module-ready")) <= 1
    /\ Cardinality(LoadsStarted) <= 1
    /\ \A i \in StatusesAt("generating") :
         requests[posted[i].request].generatorId = "continental"
           => \E j \in StatusesAt("module-ready") : j < i

(* the second continental request has been received while the first was   *)
(* still awaiting the module, and the load was announced and started once *)
C26_Witness ==
  /\ script = "generator.worker.ts"
  /\ Len(requests) >= 2
  /\ requests[1].pc = "awaitModule" /\ requests[2].pc = "awaitModule"
  /\ ~Fulfilled(modulePromise)
  /\ StatusesAt("loading-module") = {1}
  /\ Cardinality(LoadsStarted) = 1

(* C27: in the worker that uses ensureResources, however the 'generate'    *)
(* requests for the 'terrain-wasm' engine interleave (a second one may     *)
(* arrive while the first still awaits loadTerrainWasm), the               *)
(* 'loading-module' and the 'module-ready' status are each posted at most  *)
(* once.                                                                   *)
C27_ResourceStatusesOnce ==
  script = "part_006" =>
    /\ Cardinality(StatusesAt("loading-module")) <= 1
    /\ Cardinality(StatusesAt("module-ready")) <= 1

(* the promises returned by the calls of loadTerrainWasm made so far *)
CallsReturned == {p \in 1..Len(promises) : promises[p].kind = "call"}

(* a settled load keeps its module, and a failed import ends in the       *)
(* fallback module                                                        *)
OutcomeKept ==
  \A p \in LoadsStarted :
    /\ promises[p].phase = "settled" => promises'[p] = promises[p]
    /\ (promises[p].phase = "fallback" /\ promises'[p] # promises[p])
         => (promises'[p].phase = "settled" /\ promises'[p].value = "fallback")

-----------------------------------------------------------------------------
(* routes/+page.svelte: the page, its worker and the isGenerating store *)

(* the page is mounted: the worker exists and has received nothing yet *)
InitPage == InitWorker

(* +page.svelte 132-150 with a worker; the parameters are those of the     *)
(* generatorParameters store, of which the worker reads the generator id   *)
triggerGeneration ==
  /\ Len(requests) < MaxRequests
  /\ isGenerating' = TRUE
  /\ \E id \in GeneratorIds(script) :
       requests' = Append(requests, [type |-> "generate", generatorId |-> id,
                                     pc |-> "queued", awaits |-> 0])
  /\ UNCHANGED <<workerFrame, script, posted, modulePromise, moduleLoaded, moduleReady,
                 loadPromise, promises, delivered, ENGINE_RUNTIME_CACHE>>

(* +page.svelte 199: the Generate button, disabled while isGenerating *)
ClickGenerate == ~isGenerating /\ triggerGeneration

(* +page.svelte 161-166: Ctrl/Cmd+G *)
ShortcutGenerate == triggerGeneration

(* +page.svelte 40-73: the page handles the next message of the worker;    *)
(* the arrays of a result are held by the generatorResult store            *)
WorkerOnMessage ==
  /\ delivered < Len(posted)
  /\ delivered' = delivered + 1
  /\ LET message == posted[delivered + 1]
         n == Len(arrays)
     IN IF message.type = "status"
        THEN UNCHANGED <<isGenerating, generatorResult, arrays>>
        ELSE IF message.type = "error"
        THEN /\ isGenerating' = FALSE
             /\ UNCHANGED <<generatorResult, arrays>>
        ELSE /\ arrays' = arrays \o [i \in 1..6 |-> [c \in 1..(width * height) |-> 0]]
             /\ generatorResult' = [held |-> TRUE, heightmap |-> n + 1, flow |-> n + 2,
                                    moisture |-> n + 3, temperature |-> n + 4,
                                    biome |-> n + 5, water |-> n + 6]
             /\ isGenerating' = FALSE
  /\ UNCHANGED <<pc, gridVars, sample, verdict, limit, settlements, callLog, rng,
                 roadGraph, generatorParameters, script, requests, posted,
                 modulePromise, moduleLoaded, moduleReady, loadPromise, promises,
                 ENGINE_RUNTIME_CACHE>>

NextPage == ClickGenerate \/ ShortcutGenerate \/ WorkerStep \/ WorkerOnMessage

SpecPage == InitPage /\ [][NextPage]_vars

(* the 'generate' requests posted and not yet answered by a 'result' or an *)
(* 'error' message that the page has handled                               *)
Outstanding ==
  Len(requests)
    - Cardinality({i \in 1..delivered : posted[i].type \in {"result", "error"}})

(* C29: isGenerating is true in every state in which at least one          *)
(* 'generate' request has been posted to the worker and has not yet been   *)
(* answered by a 'result' or 'error' message, also when requests are       *)
(* triggered with Ctrl/Cmd+G while one is outstanding.                     *)
C29_GeneratingWhileOutstanding ==
  Outstanding > 0 => isGenerating

-----------------------------------------------------------------------------
(* stores/generatorStore.ts and the engine catalog (part_011); option      *)
(* values are in hundredths                                                *)

OptionDefinition(id, min, max) == [id |-> id, min |-> min, max |-> max]

VariantDefinition(id, optionDefaults) == [id |-> id, optionDefaults |-> optionDefaults]

(* part_011 15-56 *)
terrainOptions ==
  << OptionDefinition("seaLevel", 20, 70),
     OptionDefinition("elevationAmplitude", 40, 160),
     OptionDefinition("warpStrength", 0, 22000),
     OptionDefinition("erosionIterations", 0, 1000),
     OptionDefinition("moistureScale", 20, 200) >>

(* part_011 58-96 *)
terrainVariants ==
  << VariantDefinition("temperate-standard",
       [seaLevel |-> 48, elevationAmplitude |-> 90, warpStrength |-> 8000,
        erosionIterations |-> 200, moistureScale |-> 100]),
     VariantDefinition("rugged-mountains",
       [seaLevel |-> 40, elevationAmplitude |-> 125, warpStrength |-> 14000,
        erosionIterations |-> 400, moistureScale |-> 80]),
     VariantDefinition("coral-archipelago",
       [seaLevel |-> 62, elevationAmplitude |-> 65, warpStrength |-> 6000,
        erosionIterations |-> 100, moistureScale |-> 130]) >>

(* part_011 98-125 *)
fractalOptions ==
  << OptionDefinition("roughness", 25, 85),
     OptionDefinition("baseMoisture", 10, 90),
     OptionDefinition("riverBoost", 50, 250) >>

(* part_011 127-158 *)
fractalVariants ==
  << VariantDefinition("craggy-spires", [roughness |-> 45, baseMoisture |-> 35, riverBoost |-> 160]),
     VariantDefinition("rolling-hills", [roughness |-> 65, baseMoisture |-> 55, riverBoost |-> 110]),
     VariantDefinition("frozen-wastes", [roughness |-> 30, baseMoisture |-> 20, riverBoost |-> 80]) >>

(* part_011 160-186 *)
voronoiOptions ==
  << OptionDefinition("cellCount", 600, 4800),
     OptionDefinition("ridgeSharpness", 20, 120),
     OptionDefinition("seaLevel", 25, 75) >>

(* part_011 188-219 *)
voronoiVariants ==
  << VariantDefinition("continental-plates", [cellCount |-> 1400, ridgeSharpness |-> 75, seaLevel |-> 48]),
     VariantDefinition("shattered-realms", [cellCount |-> 2800, ridgeSharpness |-> 90, seaLevel |-> 52]),
     VariantDefinition("rift-seas", [cellCount |-> 1000, ridgeSharpness |-> 60, seaLevel |-> 60]) >>

(* part_011 221-248 *)
archipelagoOptions ==
  << OptionDefinition("noiseScale", 150, 800),
     OptionDefinition("islandFactor", 20, 120),
     OptionDefinition("moistureJitter", 0, 80) >>

(* part_011 250-281 *)
archipelagoVariants ==
  << VariantDefinition("emerald-chain", [noiseScale |-> 320, islandFactor |-> 55, moistureJitter |-> 55]),
     VariantDefinition("misty-atolls", [noiseScale |-> 240, islandFactor |-> 80, moistureJitter |-> 35]),
     VariantDefinition("stormbound-reaches", [noiseScale |-> 450, islandFactor |-> 45, moistureJitter |-> 70]) >>

(* part_011 283-313 *)
GENERATOR_ENGINES ==
  << [id |-> "terrain-wasm", variants |-> terrainVariants, options |-> terrainOptions],
     [id |-> "fractal-highlands", variants |-> fractalVariants, options |-> fractalOptions],
     [id |-> "voronoi-realms", variants |-> voronoiVariants, options |-> voronoiOptions],
     [id |-> "noisy-archipelago", variants |-> archipelagoVariants, options |-> archipelagoOptions] >>

(* null *)
NoDefinition == [id |-> "null"]

(* the first entry of a list with this id, or null: Array.find, Map.get *)
Find(list, id) ==
  IF \E k \in 1..Len(list) : list[k].id = id
  THEN list[CHOOSE k \in 1..Len(list) :
              list[k].id = id /\ \A j \in 1..(k - 1) : list[j].id # id]
  ELSE NoDefinition

(* part_011 317-319 *)
getEngineDefinition(id) == Find(GENERATOR_ENGINES, id)

(* part_011 321-329 *)
getVariantDefinition(engine, variantId) ==
  IF engine = NoDefinition THEN NoDefinition ELSE Find(engine.variants, variantId)

OptionIds(engine) == {engine.options[k].id : k \in 1..Len(engine.options)}

(* part_011 331-348 with the empty overrides every caller passes *)
resolveOptionValue(engine, variant) ==
  [o \in OptionIds(engine) |->
     IF o \in DOMAIN variant.optionDefaults
     THEN variant.optionDefaults[o]
     ELSE Find(engine.options, o).min]

(* the value written without the upper bound *)
clampedValueAbove(option, value) ==
  IF value < option.min THEN option.min ELSE value

(* generatorStore.ts 544: Math.min(option.max, Math.max(option.min, value)) *)
clampedValue(option, value) ==
  LET raised == IF value < option.min THEN option.min ELSE value
  IN IF raised > option.max THEN option.max ELSE raised

(* generatorStore.ts 388-395, part_011 350-358 *)
DEFAULT_PARAMS ==
  [width |-> 512, height |-> 512, seed |-> 1337,
   generatorId |-> GENERATOR_ENGINES[1].id,
   variantId |-> GENERATOR_ENGINES[1].variants[1].id,
   options |-> resolveOptionValue(GENERATOR_ENGINES[1], GENERATOR_ENGINES[1].variants[1])]

(* the ids a call can name: those of the catalog and one of none *)
EngineArguments == {GENERATOR_ENGINES[k].id : k \in 1..Len(GENERATOR_ENGINES)} \cup {"unknown"}

VariantArguments ==
  UNION {{GENERATOR_ENGINES[k].variants[j].id : j \in 1..Len(GENERATOR_ENGINES[k].variants)} :
           k \in 1..Len(GENERATOR_ENGINES)} \cup {"unknown"}

OptionArguments ==
  UNION {OptionIds(GENERATOR_ENGINES[k]) : k \in 1..Len(GENERATOR_ENGINES)} \cup {"unknown"}

(* parseFloat of a slider value, and numbers no slider of the option gives *)
OptionValues == {-100, 50, 30000}

InitStore ==
  /\ pc = "store"
  /\ width = 1 /\ height = 1
  /\ heightmap = <<>> /\ seaLevel = 0 /\ moistureScale = 0
  /\ downslope = <<>> /\ order = <<>> /\ cursor = 0
  /\ flow = <<>> /\ water = <<>> /\ moisture = <<>>
  /\ temperature = <<>> /\ biome = <<>>
  /\ roadGraph = NoRoadGraph
  /\ generatorResult = NoResult /\ arrays = <<>>
  /\ sample = NoSample /\ verdict = NoSample
  /\ limit = 0 /\ settlements = <<>> /\ callLog = <<>> /\ rng = 0
  /\ ENGINE_RUNTIME_CACHE = {}
  /\ script = "none"
  /\ requests = <<>> /\ posted = <<>>
  /\ modulePromise = 0 /\ moduleLoaded = FALSE /\ moduleReady = FALSE
  /\ loadPromise = 0 /\ promises = <<>>
  /\ isGenerating = FALSE /\ delivered = 0
  /\ generatorParameters = DEFAULT_PARAMS

storeFrame == <<pc, gridVars, sample, verdict, limit, settlements, callLog, rng,
                roadGraph, generatorResult, arrays, script, requests, posted,
                modulePromise, moduleLoaded, moduleReady, loadPromise, promises,
                isGenerating, delivered, ENGINE_RUNTIME_CACHE>>

(* generatorStore.ts 502-514 *)
setGenerator(engineId) ==
  /\ LET engine == getEngineDefinition(engineId)
     IN IF engine = NoDefinition
        THEN UNCHANGED generatorParameters
        ELSE generatorParameters' =
               [generatorParameters EXCEPT
                  !.generatorId = engine.id,
                  !.variantId = engine.variants[1].id,
                  !.options = resolveOptionValue(engine, engine.variants[1])]
  /\ UNCHANGED storeFrame

(* generatorStore.ts 516-532 *)
setVariant(variantId) ==
  /\ LET engine == getEngineDefinition(generatorParameters.generatorId)
         variant == getVariantDefinition(engine, variantId)
     IN IF engine = NoDefinition \/ variant = NoDefinition
        THEN UNCHANGED generatorParameters
        ELSE generatorParameters' =
               [generatorParameters EXCEPT
                  !.variantId = variant.id,
                  !.options = resolveOptionValue(engine, variant)]
  /\ UNCHANGED storeFrame

(* generatorStore.ts 534-553 *)
updateOption(optionId, value) ==
  /\ LET engine == getEngineDefinition(generatorParameters.generatorId)
         option == IF engine = NoDefinition THEN NoDefinition
                   ELSE Find(engine.options, optionId)
     IN IF engine = NoDefinition \/ option = NoDefinition
        THEN UNCHANGED generatorParameters
        ELSE generatorParameters' =
               [generatorParameters EXCEPT
                  !.options = [o \in DOMAIN generatorParameters.options \cup {optionId} |->
                                 IF o = optionId THEN clampedValue(option, value)
                                 ELSE generatorParameters.options[o]]]
  /\ UNCHANGED storeFrame

NextStore ==
  \/ \E engineId \in EngineArguments : setGenerator(engineId)
  \/ \E variantId \in VariantArguments : setVariant(variantId)
  \/ \E optionId \in OptionArguments : \E value \in OptionValues : updateOption(optionId, value)

SpecStore == InitStore /\ [][NextStore]_vars

(* the positions in the catalog of the engines with this id *)
EnginesNamed(id) == {k \in 1..Len(GENERATOR_ENGINES) : GENERATOR_ENGINES[k].id = id}

(* variantId names a variant of the engine generatorId names *)
VariantOfEngine ==
  \E k \in EnginesNamed(generatorParameters.generatorId) :
    \E j \in 1..Len(GENERATOR_ENGINES[k].variants) :
      GENERATOR_ENGINES[k].variants[j].id = generatorParameters.variantId

(* what a setGenerator call does *)
GeneratorReset(engineId) ==
  IF EnginesNamed(engineId) = {}
  THEN generatorParameters' = generatorParameters
  ELSE \E k \in EnginesNamed(engineId) :
         LET first == GENERATOR_ENGINES[k].variants[1]
         IN /\ generatorParameters'.generatorId = engineId
            /\ generatorParameters'.variantId = first.id
            /\ DOMAIN generatorParameters'.options =
                 {GENERATOR_ENGINES[k].options[i].id : i \in 1..Len(GENERATOR_ENGINES[k].options)}
            /\ \A i \in 1..Len(GENERATOR_ENGINES[k].options) :
                 LET o == GENERATOR_ENGINES[k].options[i]
                 IN generatorParameters'.options[o.id] =
                      (IF o.id \in DOMAIN first.optionDefaults
                       THEN first.optionDefaults[o.id] ELSE o.min)

(* what a setVariant call naming no variant of the engine does *)
UnknownVariantIgnored(variantId) ==
  (\A k \in EnginesNamed(generatorParameters.generatorId) :
     \A j \in 1..Len(GENERATOR_ENGINES[k].variants) :
       GENERATOR_ENGINES[k].variants[j].id # variantId)
    => generatorParameters' = generatorParameters

(* what an updateOption call does *)
OptionClamped(optionId) ==
  LET named == {o \in UNION {{GENERATOR_ENGINES[k].options[i] :
                                i \in 1..Len(GENERATOR_ENGINES[k].options)} :
                             k \in EnginesNamed(generatorParameters.generatorId)} :
                  o.id = optionId}
  IN IF named = {}
     THEN generatorParameters' = generatorParameters
     ELSE \A o \in named :
            /\ o.min <= generatorParameters'.options[optionId]
            /\ generatorParameters'.options[optionId] <= o.max

(* C30: after any sequence of setGenerator, setVariant and updateOption    *)
(* calls, variantId names a variant of the engine generatorId names;       *)
(* setGenerator resets the variant to the engine's first variant and the   *)
(* options to that variant's resolved defaults; every value updateOption   *)
(* writes lies in [option.min, option.max]; a call naming an unknown       *)
(* engine, variant or option leaves generatorParameters unchanged; and     *)
(* every call leaves width, height and seed unchanged.                     *)
C30_StoreCallsKeepParametersValid ==
  /\ []VariantOfEngine
  /\ [][/\ \A engineId \in EngineArguments :
             setGenerator(engineId) => GeneratorReset(engineId)
        /\ \A variantId \in VariantArguments :
             setVariant(variantId) => UnknownVariantIgnored(variantId)
        /\ \A optionId \in OptionArguments : \A value \in OptionValues :
             updateOption(optionId, value) => OptionClamped(optionId)
        /\ generatorParameters'.width = generatorParameters.width
        /\ generatorParameters'.height = generatorParameters.height
        /\ generatorParameters'.seed = generatorParameters.seed]_vars

(* another engine has been selected, then another variant, and an option   *)
(* has been given a value above its maximum and one a value below its      *)
(* minimum                                                                 *)
C30_Witness ==
  /\ generatorParameters.generatorId = "voronoi-realms"
  /\ generatorParameters.variantId = "rift-seas"
  /\ generatorParameters.options.ridgeSharpness = 120
  /\ generatorParameters.options.cellCount = 600
  /\ generatorParameters.width = 512

====
